---- MODULE Spec2Model ----
(***************************************************************************)
(* Verification model of the 321mova12 player core:                        *)
(*   - the client playback orchestrator and ad-break state machine         *)
(*     (src/src/components/ui/player/HlsJsonPlayer.tsx),                   *)
(*   - the VAST wrapper resolvers (client resolveVastDirect, server        *)
(*     resolveVastAd),                                                     *)
(*   - the proxy token service and the secure playlist proxy.             *)
(*                                                                         *)
(* The React component is modelled with its state (the latest value given   *)
(* to a setter), its refs, and the values committed by the last render     *)
(* (what the registered handlers close over).  A state change made by a     *)
(* DOM event handler or a promise callback is committed by a later Render   *)
(* step; other events may be delivered in between.  Handlers of React       *)
(* click events are flushed synchronously, so they include their render.   *)
(***************************************************************************)
EXTENDS Integers, Sequences, FiniteSets, TLC

(***************************************************************************)
(* Bounds of the model.                                                    *)
(***************************************************************************)
NumSources == 3
MainDuration == 3
AdLength == 4
MaxClicks == 2
\* Dispatches of one URL list are counted up to CountCap.
CountCap == 2
\* What the environment does in one run: the default source, the number of
\* error events of the main player, of picks in the source dialog, of changes
\* of the disableVastAds prop, of ads the ad server answers with for each
\* slot and of
\* clicks on "Visit Sponsor".
MaxErrors == 3
MaxToggles == 1
MaxAds == 1
MaxSwitches == 2
\* The startAt prop of a player that resumes a title, in seconds.
StartAt == 2

Served(preroll, midroll) ==
    [slot \in {"preroll", "midroll"} |->
        IF slot = "preroll" THEN preroll ELSE midroll]

\* Ad breaks on one source.
AdBreakScenarios ==
    { [start |-> {0}, errors |-> 0, switches |-> 0, toggles |-> MaxToggles,
       ads |-> Served(MaxAds, MaxAds), clicks |-> 0],
      [start |-> {0}, errors |-> 0, switches |-> 0, toggles |-> 0,
       ads |-> Served(0, MaxAds), clicks |-> MaxClicks] }

\* Failing sources.
FailoverScenarios ==
    { [start |-> 0..(NumSources - 1), errors |-> MaxErrors, switches |-> 0,
       toggles |-> 0, ads |-> Served(0, 0), clicks |-> 0],
      [start |-> {0}, errors |-> 1, switches |-> 0, toggles |-> 0,
       ads |-> Served(MaxAds, 0), clicks |-> 0] }

\* One failure of the first source, with a preroll served.
ErrorScenarios ==
    { [start |-> {0}, errors |-> 1, switches |-> 0, toggles |-> 0,
       ads |-> Served(MaxAds, 0), clicks |-> 0] }

\* A player that resumes a title at StartAt, with a preroll served.
StartAtScenarios ==
    { [start |-> {0}, errors |-> 0, switches |-> 0, toggles |-> 0,
       ads |-> Served(MaxAds, 0), clicks |-> 0, startAt |-> StartAt] }

\* Picks in the source dialog while the preroll is requested and played.
SwitchScenarios ==
    { [start |-> {0}, errors |-> 0, switches |-> MaxSwitches, toggles |-> 0,
       ads |-> Served(MaxAds, 0), clicks |-> 0] }

(***************************************************************************)
(* Values.                                                                 *)
(***************************************************************************)
\* null / undefined where the other values are numbers.
Null == 0 - 1
NoElement == 0 - 1
NoError == "none"
FatalMessage == "Stream playback failed. Please try another source."

AdSlot == {"preroll", "midroll"}

VAST_TRACKING_EVENT_KEYS ==
    <<"start", "firstQuartile", "midpoint", "thirdQuartile",
      "complete", "skip", "closeLinear", "click">>

EventKeys == {VAST_TRACKING_EVENT_KEYS[i] : i \in 1..Len(VAST_TRACKING_EVENT_KEYS)}

SourceIndexes == 0..(NumSources - 1)

\* availableSources[i].file: pickHlsSources keeps one entry per file, so the
\* file of entry i is identified with i.
SourceFile(i) == i

\* An ActiveVastAd.  skipOffsetHalves is skipOffsetSeconds in half seconds
\* (Null when the ad declares none); clickThrough says whether clickThroughUrl
\* is present.  Each tracking URL list is abstracted to its event key.
NoAd == [slot |-> "none", skipOffsetHalves |-> Null, clickThrough |-> FALSE]

\* The ad each slot's tag serves: a plain preroll, and a midroll that can be
\* skipped after SkipOffsetHalves half seconds and has a click-through.
SkipOffsetHalves == 3

AdServed(slot) ==
    IF slot = "preroll"
    THEN [slot |-> slot, skipOffsetHalves |-> Null, clickThrough |-> FALSE]
    ELSE [slot |-> slot, skipOffsetHalves |-> SkipOffsetHalves,
          clickThrough |-> TRUE]

Max(a, b) == IF a >= b THEN a ELSE b

\* Math.ceil(h / 2) for an integer number h of half seconds.
CeilHalves(h) == IF h >= 0 THEN (h + 1) \div 2 ELSE -((-h) \div 2)

(***************************************************************************)
(* State of one mounted HlsJsonPlayer.                                     *)
(***************************************************************************)
VARIABLES
    \* React state: the latest value handed to each setter.
    activeSourceIndex, error, activeAd, adSkipRemaining, playerElement,
    \* Prop.
    disableVastAds,
    \* Refs.
    activeAdRef, prerollAdRef, midrollAdRef, hasPrerollPlayedRef,
    hasMidrollPlayedRef, isFetchingPrerollRef, isFetchingMidrollRef,
    isAdPlayingRef, resumeMainAfterAdRef, resumeContentTimeRef,
    adEventFiredRef, hasReportedErrorRef, streamUrlRef, disableVastAdsRef,
    \* Values committed by the last render: what the registered handlers
    \* close over.
    rendered,
    \* The <media-player> element of the page and its media state.
    mainElem, mainTime, mainPaused, mainDuration, playEventPending,
    \* The ad <video> element.
    adTime, adPlayPromise, adSignals,
    \* fetchVastAd promises not yet settled, with what their callbacks
    \* close over.
    adFetches,
    \* History kept for the properties.
    log, dispatched, breakTrigger, fetchCount, startIndex, midTicks,
    \* The number of changes of streamUrl committed so far.
    lifetime,
    \* The sources whose player has delivered an error event.
    failed,
    \* normalizedStartAt, hasAppliedStartAtRef, and whether the timer of the
    \* fallback seek is pending.
    startAt, hasAppliedStartAtRef, seekTimerArmed,
    \* What the environment may do and has done.
    scenario, errors, switches, toggles, adsServed

playerVars ==
    <<activeSourceIndex, error, activeAd, adSkipRemaining, playerElement,
      disableVastAds, activeAdRef, prerollAdRef, midrollAdRef,
      hasPrerollPlayedRef, hasMidrollPlayedRef, isFetchingPrerollRef,
      isFetchingMidrollRef, isAdPlayingRef, resumeMainAfterAdRef,
      resumeContentTimeRef, adEventFiredRef, hasReportedErrorRef,
      streamUrlRef, disableVastAdsRef, rendered, mainElem, mainTime,
      mainPaused, mainDuration, playEventPending, adTime, adPlayPromise,
      adSignals, adFetches, log, dispatched, breakTrigger, fetchCount,
      startIndex, midTicks, lifetime, failed, startAt, hasAppliedStartAtRef,
      seekTimerArmed, scenario, errors, switches, toggles, adsServed>>

(***************************************************************************)
(* State of the services beside the player: a VAST resolution in progress   *)
(* (client resolveVastDirect or server resolveVastAd).                      *)
(***************************************************************************)
VARIABLES
    \* The documents the ad servers answer with, by URL.
    vastWeb,
    \* "client" for resolveVastDirect, "server" for resolveVastAd.
    vastSide,
    \* The activations of the resolver, outermost first.
    vastStack,
    \* The value the innermost finished activation has returned.
    vastReturn,
    \* History kept for the properties: the depths at which a document was
    \* requested, and the URLs of the activations at the moment an inline ad
    \* was parsed.
    vastFetched, vastPath

resolverVars ==
    <<vastWeb, vastSide, vastStack, vastReturn, vastFetched, vastPath>>

(***************************************************************************)
(* State of the proxy token service and of the secure playlist proxy.       *)
(***************************************************************************)
VARIABLES
    \* process.env.PLAYER_PROXY_TOKEN_SECRET, and Date.now() in half seconds.
    proxySecretEnv, clock,
    \* The token minted, with what it was minted for, and the last decode
    \* since the clock moved.
    minted, lastDecode,
    \* History kept for the properties: how often the minted token has been
    \* accepted, whether it has been rejected at or after its expiry.
    decodes, expiredSeen,
    \* The payload of the request being served by the proxy, and its response.
    proxyPending, proxyResponse,
    \* The token of that request, and the number of requests the client has
    \* made along the chain of references that began at the minted token.
    proxyRequest, proxyHops

tokenVars == <<proxySecretEnv, clock, minted, lastDecode, decodes, expiredSeen>>

playlistVars == <<proxyPending, proxyResponse, proxyRequest, proxyHops>>

(***************************************************************************)
(* A VAST document handed to one of the parser's functions, and what the    *)
(* function returned.                                                      *)
(***************************************************************************)
VARIABLES vastXml, vastParsed

parserVars == <<vastXml, vastParsed>>

(***************************************************************************)
(* One call of the client's fetchVastAd: where it is, its AbortController,  *)
(* what the internal ad-decision endpoint answers and what it returned.     *)
(***************************************************************************)
VARIABLES adRequest

adRequestVars == <<adRequest>>

(***************************************************************************)
(* One request to the source aggregation endpoint and the adoption of its  *)
(* answer by the player's loadPlaylist.                                     *)
(***************************************************************************)
VARIABLES aggregation

aggregationVars == <<aggregation>>

serviceVars ==
    <<resolverVars, tokenVars, playlistVars, parserVars, adRequestVars,
      aggregationVars>>

\* The player state as one record, on which the handlers are written as the
\* sequential code they are.
Cur ==
    [activeSourceIndex |-> activeSourceIndex, error |-> error,
     activeAd |-> activeAd, adSkipRemaining |-> adSkipRemaining,
     playerElement |-> playerElement, disableVastAds |-> disableVastAds,
     activeAdRef |-> activeAdRef, prerollAdRef |-> prerollAdRef,
     midrollAdRef |-> midrollAdRef,
     hasPrerollPlayedRef |-> hasPrerollPlayedRef,
     hasMidrollPlayedRef |-> hasMidrollPlayedRef,
     isFetchingPrerollRef |-> isFetchingPrerollRef,
     isFetchingMidrollRef |-> isFetchingMidrollRef,
     isAdPlayingRef |-> isAdPlayingRef,
     resumeMainAfterAdRef |-> resumeMainAfterAdRef,
     resumeContentTimeRef |-> resumeContentTimeRef,
     adEventFiredRef |-> adEventFiredRef,
     hasReportedErrorRef |-> hasReportedErrorRef,
     streamUrlRef |-> streamUrlRef, disableVastAdsRef |-> disableVastAdsRef,
     rendered |-> rendered, mainElem |-> mainElem, mainTime |-> mainTime,
     mainPaused |-> mainPaused, mainDuration |-> mainDuration,
     playEventPending |-> playEventPending, adTime |-> adTime,
     adPlayPromise |-> adPlayPromise, adSignals |-> adSignals,
     adFetches |-> adFetches, log |-> log, breakTrigger |-> breakTrigger,
     dispatched |-> dispatched, scenario |-> scenario, errors |-> errors,
     adsServed |-> adsServed,
     fetchCount |-> fetchCount, switches |-> switches, toggles |-> toggles,
     startIndex |-> startIndex, midTicks |-> midTicks,
     lifetime |-> lifetime, failed |-> failed, startAt |-> startAt,
     hasAppliedStartAtRef |-> hasAppliedStartAtRef,
     seekTimerArmed |-> seekTimerArmed]

\* The state a step starts from.
Now == [Cur EXCEPT !.log = <<>>]

Becomes(s) ==
    /\ activeSourceIndex' = s.activeSourceIndex
    /\ error' = s.error
    /\ activeAd' = s.activeAd
    /\ adSkipRemaining' = s.adSkipRemaining
    /\ playerElement' = s.playerElement
    /\ disableVastAds' = s.disableVastAds
    /\ activeAdRef' = s.activeAdRef
    /\ prerollAdRef' = s.prerollAdRef
    /\ midrollAdRef' = s.midrollAdRef
    /\ hasPrerollPlayedRef' = s.hasPrerollPlayedRef
    /\ hasMidrollPlayedRef' = s.hasMidrollPlayedRef
    /\ isFetchingPrerollRef' = s.isFetchingPrerollRef
    /\ isFetchingMidrollRef' = s.isFetchingMidrollRef
    /\ isAdPlayingRef' = s.isAdPlayingRef
    /\ resumeMainAfterAdRef' = s.resumeMainAfterAdRef
    /\ resumeContentTimeRef' = s.resumeContentTimeRef
    /\ adEventFiredRef' = s.adEventFiredRef
    /\ hasReportedErrorRef' = s.hasReportedErrorRef
    /\ streamUrlRef' = s.streamUrlRef
    /\ disableVastAdsRef' = s.disableVastAdsRef
    /\ rendered' = s.rendered
    /\ mainElem' = s.mainElem
    /\ mainTime' = s.mainTime
    /\ mainPaused' = s.mainPaused
    /\ mainDuration' = s.mainDuration
    /\ playEventPending' = s.playEventPending
    /\ adTime' = s.adTime
    /\ adPlayPromise' = s.adPlayPromise
    /\ adSignals' = s.adSignals
    /\ adFetches' = s.adFetches
    /\ log' = IF s.log = <<>> THEN log ELSE s.log
    /\ dispatched' = s.dispatched
    /\ scenario' = s.scenario
    /\ errors' = s.errors
    /\ adsServed' = s.adsServed
    /\ breakTrigger' = s.breakTrigger
    /\ fetchCount' = s.fetchCount
    /\ switches' = s.switches
    /\ toggles' = s.toggles
    /\ startIndex' = s.startIndex
    /\ midTicks' = s.midTicks
    /\ lifetime' = s.lifetime
    /\ failed' = s.failed
    /\ startAt' = s.startAt
    /\ hasAppliedStartAtRef' = s.hasAppliedStartAtRef
    /\ seekTimerArmed' = s.seekTimerArmed
    /\ UNCHANGED serviceVars

(***************************************************************************)
(* Media element accessors.  A handler closes over the element of the       *)
(* render that registered it; an element that has been replaced is          *)
(* detached, and calls on it do not reach the element on the page.          *)
(***************************************************************************)
\* log: what the step being taken has done so far, in order; between steps,
\* what the last step that did something has done.
Logged(s, entry) == [s EXCEPT !.log = Append(@, entry)]

getPlayerCurrentTime(s, player) ==
    IF player # NoElement /\ player = s.mainElem THEN s.mainTime ELSE 0

getPlayerDuration(s, player) ==
    IF player # NoElement /\ player = s.mainElem THEN s.mainDuration ELSE 0

setPlayerCurrentTime(s, player, time) ==
    IF player # NoElement /\ player = s.mainElem
    THEN [s EXCEPT !.mainTime = time]
    ELSE s

pauseMainPlayback(s, player) ==
    IF player # NoElement /\ player = s.mainElem
    THEN [s EXCEPT !.mainPaused = TRUE]
    ELSE s

\* player.play(): a paused element starts playing and queues a play event.
resumeMainPlayback(s, player) ==
    IF player # NoElement /\ player = s.mainElem /\ s.mainPaused
    THEN Logged([s EXCEPT !.mainPaused = FALSE, !.playEventPending = TRUE],
                "resume")
    ELSE IF player # NoElement /\ player = s.mainElem
         THEN Logged(s, "resume")
         ELSE s

(***************************************************************************)
(* Tracking.                                                               *)
(***************************************************************************)
\* fireTrackingPixels(urls[, errorCode]): one beacon per URL of the list; the
\* list is named by its label in the history.
\* dispatched counts the dispatches of each list since the ad break started.
TrackingLabels == EventKeys \cup {"impression", "error", "clickTracking"}

NoneDispatched == [l \in TrackingLabels |-> 0]

fireTrackingPixels(s, label) ==
    Logged([s EXCEPT !.dispatched[label] =
                         IF @ < CountCap THEN @ + 1 ELSE @],
           label)

resetAdTrackingState(s) == [s EXCEPT !.adEventFiredRef = {}]

\* fireAdEventTracking without its fired flag test.
fireAdEventTrackingUnflagged(s, ad, eventKey) ==
    IF ad = NoAd THEN s
    ELSE fireTrackingPixels(
             [s EXCEPT !.adEventFiredRef = @ \cup {eventKey}], eventKey)

fireAdEventTracking(s, ad, eventKey) ==
    IF ad = NoAd THEN s
    ELSE IF eventKey \in s.adEventFiredRef THEN s
    ELSE fireTrackingPixels(
             [s EXCEPT !.adEventFiredRef = @ \cup {eventKey}], eventKey)

fireAdImpression(s, ad) ==
    IF ad = NoAd THEN s
    ELSE IF "impression" \in s.adEventFiredRef THEN s
    ELSE fireTrackingPixels(
             [s EXCEPT !.adEventFiredRef = @ \cup {"impression"}],
             "impression")

fireAdError(s, ad) ==
    IF ad = NoAd THEN s
    ELSE IF "error" \in s.adEventFiredRef THEN s
    ELSE fireTrackingPixels(
             [s EXCEPT !.adEventFiredRef = @ \cup {"error"}], "error")

(***************************************************************************)
(* Ad break.                                                               *)
(***************************************************************************)
\* The value startAdBreak stores in resumeContentTimeRef.
startAdBreakResumeTime(resumeTime) ==
    IF resumeTime # Null THEN resumeTime ELSE Null

\* The value startAdBreak hands to setAdSkipRemaining.
initialSkipRemaining(ad) ==
    IF ad.skipOffsetHalves # Null
    THEN Max(0, CeilHalves(ad.skipOffsetHalves))
    ELSE Null

\* startAdBreak returns false, changing nothing, while an ad is playing.
startAdBreakStarts(s, ad) == ~s.isAdPlayingRef /\ ad # NoAd

startAdBreak(s, ad, resumePlayback, resumeTime) ==
    IF ~startAdBreakStarts(s, ad) THEN s
    ELSE resetAdTrackingState(
             [s EXCEPT !.isAdPlayingRef = TRUE,
                       !.resumeMainAfterAdRef = resumePlayback,
                       !.resumeContentTimeRef =
                           startAdBreakResumeTime(resumeTime),
                       !.adSkipRemaining = initialSkipRemaining(ad),
                       !.activeAd = ad,
                       !.dispatched = NoneDispatched])

\* A finishAdBreak that leaves the main player where it is.
finishAdBreakNoSeek(s, player, resumeTime) == s

\* The seek of finishAdBreak: the main player goes back to the recorded time.
finishAdBreakSeek(s, player, resumeTime) ==
    IF player # NoElement /\ resumeTime # Null
    THEN Logged(setPlayerCurrentTime(s, player, resumeTime), "seek")
    ELSE s

\* finishAdBreak as the callback created by the render whose playerElement
\* is `player`.
finishAdBreak(s, player) ==
    IF s.activeAdRef = NoAd THEN s
    ELSE LET currentAd == s.activeAdRef
             shouldResumePlayback == s.resumeMainAfterAdRef
             resumeTime == s.resumeContentTimeRef
             s1 == [s EXCEPT
                       !.hasPrerollPlayedRef =
                           IF currentAd.slot = "preroll" THEN TRUE ELSE @,
                       !.hasMidrollPlayedRef =
                           IF currentAd.slot = "midroll" THEN TRUE ELSE @,
                       !.resumeMainAfterAdRef = FALSE,
                       !.resumeContentTimeRef = Null,
                       !.isAdPlayingRef = FALSE]
             s2 == [resetAdTrackingState(s1)
                       EXCEPT !.adSkipRemaining = Null, !.activeAd = NoAd]
             s3 == finishAdBreakSeek(s2, player, resumeTime)
         IN  IF shouldResumePlayback THEN resumeMainPlayback(s3, player)
             ELSE s3

(***************************************************************************)
(* Ad requests: maybeStartPreroll and maybeStartMidroll, with the callbacks *)
(* startPrerollAd / startMidrollAd they create.                             *)
(***************************************************************************)
\* What startPrerollAd passes as resumeTime.
prerollResumeTime(currentTime) == IF currentTime > 0 THEN currentTime ELSE 0

\* What startMidrollAd passes as resumeTime.
midrollResumeTime(currentTime) == currentTime

slotResumeTime(slot, currentTime) ==
    IF slot = "preroll" THEN prerollResumeTime(currentTime)
    ELSE midrollResumeTime(currentTime)

\* The guard of startPrerollAd / startMidrollAd and of the promise callbacks
\* on the source the request was made for.
sourceUnchanged(s, expectedStreamUrl) == s.streamUrlRef = expectedStreamUrl

\* A test of the prop as the request closure saw it: ads were enabled then.
adsDisabledAtRequest(s) == FALSE

\* The test of disableVastAdsRef.current in startPrerollAd / startMidrollAd.
adsDisabledNow(s) == s.disableVastAdsRef

\* startPrerollAd / startMidrollAd for the request closure f.
startSlotAd(s, f, ad) ==
    IF ~sourceUnchanged(s, f.expectedStreamUrl) THEN s
    ELSE IF adsDisabledNow(s) THEN resumeMainPlayback(s, f.playerElement)
    ELSE IF ad = NoAd THEN resumeMainPlayback(s, f.playerElement)
    ELSE IF startAdBreakStarts(s, ad)
         THEN [startAdBreak(s, ad, TRUE,
                            slotResumeTime(f.slot, f.currentTime))
                  EXCEPT !.breakTrigger = f.currentTime]
         ELSE resumeMainPlayback(s, f.playerElement)

\* Promises are told apart by a number not borne by a pending one.
newFetchId(s) ==
    CHOOSE n \in 1..(Cardinality(s.adFetches) + 1) :
        /\ n \notin {g.id : g \in s.adFetches}
        /\ \A m \in 1..(n - 1) : m \in {g.id : g \in s.adFetches}

\* Issues fetchVastAd(slot) unless one is marked in flight.
requestAd(s, f) ==
    LET fetching == IF f.slot = "preroll" THEN s.isFetchingPrerollRef
                    ELSE s.isFetchingMidrollRef
    IN  IF fetching THEN s
        ELSE [s EXCEPT
                 !.isFetchingPrerollRef =
                     IF f.slot = "preroll" THEN TRUE ELSE @,
                 !.isFetchingMidrollRef =
                     IF f.slot = "midroll" THEN TRUE ELSE @,
                 !.adFetches = @ \cup {[f EXCEPT !.id = newFetchId(s)]},
                 !.fetchCount[f.slot] = @ + 1]

\* An attempt that leaves the slot unmarked.
leaveSlotUnmarked(s) == s

\* The slot is marked consumed as soon as the attempt is made.
markPrerollAttempted(s) == [s EXCEPT !.hasPrerollPlayedRef = TRUE]

markMidrollAttempted(s) == [s EXCEPT !.hasMidrollPlayedRef = TRUE]

\* maybeStartPreroll of the main effect of the last render: [s, r] is the
\* state after the call and its return value.
maybeStartPreroll(s) ==
    IF s.rendered.disableVastAds THEN [s |-> s, r |-> FALSE]
    ELSE IF s.hasPrerollPlayedRef THEN [s |-> s, r |-> FALSE]
    ELSE LET player == s.rendered.playerElement
             f == [slot |-> "preroll",
                   expectedStreamUrl |-> s.rendered.streamUrl,
                   currentTime |-> getPlayerCurrentTime(s, player),
                   playerElement |-> player, id |-> 0,
                   lifetime |-> s.lifetime]
             s1 == pauseMainPlayback(markPrerollAttempted(s), player)
         IN  IF s1.prerollAdRef # NoAd
             THEN [s |-> startSlotAd(s1, f, s1.prerollAdRef), r |-> TRUE]
             ELSE [s |-> requestAd(s1, f), r |-> TRUE]

\* A position test that lets the midroll start anywhere in the content.
midrollDueAnywhere(duration, currentTime) == duration > 0 /\ currentTime > 0

\* The position test of maybeStartMidroll: currentTime >= duration / 2.
midrollDue(duration, currentTime) ==
    /\ duration > 0
    /\ currentTime > 0
    /\ 2 * currentTime >= duration

maybeStartMidroll(s) ==
    IF s.rendered.disableVastAds THEN [s |-> s, r |-> FALSE]
    ELSE IF s.hasMidrollPlayedRef THEN [s |-> s, r |-> FALSE]
    ELSE LET player == s.rendered.playerElement
             duration == getPlayerDuration(s, player)
             currentTime == getPlayerCurrentTime(s, player)
             f == [slot |-> "midroll",
                   expectedStreamUrl |-> s.rendered.streamUrl,
                   currentTime |-> currentTime,
                   playerElement |-> player, id |-> 0,
                   lifetime |-> s.lifetime]
             s1 == pauseMainPlayback(markMidrollAttempted(s), player)
         IN  IF ~midrollDue(duration, currentTime)
             THEN [s |-> s, r |-> FALSE]
             ELSE IF s1.midrollAdRef # NoAd
                  THEN [s |-> startSlotAd(s1, f, s1.midrollAdRef), r |-> TRUE]
                  ELSE [s |-> requestAd(s1, f), r |-> TRUE]

\* The .then and .finally callbacks of the fetchVastAd promise of request f,
\* settled with `ad` (NoAd for null).  fetchVastAd catches every failure and
\* returns null, so the promise never rejects.
adFetchSettled(s, f, ad) ==
    LET s1 == IF ~sourceUnchanged(s, f.expectedStreamUrl) THEN s
              ELSE startSlotAd(
                       [s EXCEPT
                           !.prerollAdRef =
                               IF f.slot = "preroll" THEN ad ELSE @,
                           !.midrollAdRef =
                               IF f.slot = "midroll" THEN ad ELSE @],
                       f, ad)
    IN  [s1 EXCEPT
            !.isFetchingPrerollRef = IF f.slot = "preroll" THEN FALSE ELSE @,
            !.isFetchingMidrollRef = IF f.slot = "midroll" THEN FALSE ELSE @,
            !.adFetches = @ \ {f}]

(***************************************************************************)
(* Source switching and the handlers of the main player.                   *)
(***************************************************************************)
reportFatalError(s, message) ==
    LET s1 == [s EXCEPT !.error = message]
    IN  IF s1.hasReportedErrorRef THEN s1
        ELSE [s1 EXCEPT !.hasReportedErrorRef = TRUE]

\* switchSource of the last render (its activeSourceIndex is the rendered
\* one).
\* A switchSource that stays on the source.
switchSourceStays(s, nextIndex) == s

switchSource(s, nextIndex) ==
    IF nextIndex < 0 \/ nextIndex >= NumSources THEN s
    ELSE IF nextIndex = s.rendered.index THEN s
    ELSE [s EXCEPT !.hasReportedErrorRef = FALSE,
                   !.hasAppliedStartAtRef = FALSE,
                   !.error = NoError,
                   !.activeSourceIndex = nextIndex]

handlePlay(s) ==
    IF s.isAdPlayingRef THEN s
    ELSE maybeStartPreroll(s).s

handleTimeUpdate(s) ==
    IF s.isAdPlayingRef THEN s
    ELSE maybeStartMidroll(s).s

handleCanPlay(s) ==
    IF s.startAt <= 0 \/ s.hasAppliedStartAtRef THEN s
    ELSE [setPlayerCurrentTime(s, s.rendered.playerElement, s.startAt)
             EXCEPT !.hasAppliedStartAtRef = TRUE]

\* The callback of the timer the effect sets for 1200 ms.
fallbackSeek(s) ==
    LET player == s.rendered.playerElement
    IN  IF s.startAt <= 0 \/ s.hasAppliedStartAtRef THEN s
        ELSE IF getPlayerDuration(s, player) <= 0
                    \/ getPlayerCurrentTime(s, player) >= 1
             THEN s
             ELSE [setPlayerCurrentTime(s, player, s.startAt)
                      EXCEPT !.hasAppliedStartAtRef = TRUE]

handleError(s) ==
    IF s.isAdPlayingRef THEN s
    ELSE IF s.rendered.index + 1 < NumSources
         THEN switchSource(s, s.rendered.index + 1)
         ELSE reportFatalError(s, FatalMessage)

(***************************************************************************)
(* The handlers the ad video effect registers for the rendered activeAd.    *)
(***************************************************************************)
ensureAdStartedTracking(s) ==
    fireAdEventTracking(fireAdImpression(s, s.rendered.activeAd),
                        s.rendered.activeAd, "start")

adHandleComplete(s) ==
    finishAdBreak(
        fireAdEventTracking(ensureAdStartedTracking(s),
                            s.rendered.activeAd, "complete"),
        s.rendered.playerElement)

adHandleError(s) ==
    finishAdBreak(fireAdError(s, s.rendered.activeAd),
                  s.rendered.playerElement)

\* The countdown rounded down instead of up.
skipRemainingFloor(skipOffsetHalves, adCurrentTime) ==
    Max(0, (skipOffsetHalves - 2 * adCurrentTime) \div 2)

\* Math.max(0, Math.ceil(skipOffsetSeconds - adVideo.currentTime)).
skipRemaining(skipOffsetHalves, adCurrentTime) ==
    Max(0, CeilHalves(skipOffsetHalves - 2 * adCurrentTime))

updateSkipCountdown(s) ==
    IF s.rendered.activeAd.skipOffsetHalves = Null
    THEN [s EXCEPT !.adSkipRemaining = Null]
    ELSE [s EXCEPT !.adSkipRemaining =
              skipRemaining(s.rendered.activeAd.skipOffsetHalves, s.adTime)]

\* Quartile tracking with the thresholds of firstQuartile and midpoint
\* exchanged.
updateQuartileTrackingSwapped(s) ==
    LET ad == s.rendered.activeAd
        duration == AdLength
        s1 == IF 2 * s.adTime >= duration
              THEN fireAdEventTracking(s, ad, "firstQuartile") ELSE s
        s2 == IF 4 * s.adTime >= duration
              THEN fireAdEventTracking(s1, ad, "midpoint") ELSE s1
        s3 == IF 4 * s.adTime >= 3 * duration
              THEN fireAdEventTracking(s2, ad, "thirdQuartile") ELSE s2
    IN  IF duration <= 0 \/ s.adTime <= 0 THEN s ELSE s3

updateQuartileTracking(s) ==
    LET ad == s.rendered.activeAd
        duration == AdLength
        s1 == IF 4 * s.adTime >= duration
              THEN fireAdEventTracking(s, ad, "firstQuartile") ELSE s
        s2 == IF 2 * s.adTime >= duration
              THEN fireAdEventTracking(s1, ad, "midpoint") ELSE s1
        s3 == IF 4 * s.adTime >= 3 * duration
              THEN fireAdEventTracking(s2, ad, "thirdQuartile") ELSE s2
    IN  IF duration <= 0 \/ s.adTime <= 0 THEN s ELSE s3

adHandleTimeUpdate(s) ==
    updateQuartileTracking(updateSkipCountdown(ensureAdStartedTracking(s)))

adHandlePlaying(s) == ensureAdStartedTracking(s)

(***************************************************************************)
(* Rendering.  RenderPass is one render of the component with the current   *)
(* state, its commit (elements mounted and unmounted, ref callbacks) and    *)
(* its effects, in the order the component declares them.  An effect runs   *)
(* when one of its dependencies differs from the previous render's.         *)
(***************************************************************************)
Dirty(s) ==
    \/ s.activeSourceIndex # s.rendered.index
    \/ s.error # s.rendered.error
    \/ s.activeAd # s.rendered.activeAd
    \/ s.adSkipRemaining # s.rendered.adSkipRemaining
    \/ s.playerElement # s.rendered.playerElement
    \/ s.disableVastAds # s.rendered.disableVastAds

\* A new DOM element is told apart from every element still referred to.
elementsReferred(s) ==
    {s.mainElem, s.playerElement, s.rendered.playerElement,
     s.rendered.mainListening} \cup {g.playerElement : g \in s.adFetches}

newElement(s) ==
    CHOOSE n \in 1..(Cardinality(elementsReferred(s)) + 1) :
        /\ n \notin elementsReferred(s)
        /\ \A m \in 1..(n - 1) : m \in elementsReferred(s)

\* Commit of the <media-player key={streamUrl}> element and its ref callback.
commitMainElement(s, prev, now) ==
    IF now.error # NoError
    THEN [s EXCEPT !.mainElem = NoElement, !.playerElement = NoElement,
                   !.mainTime = 0, !.mainPaused = TRUE, !.mainDuration = 0,
                   !.playEventPending = FALSE]
    ELSE IF s.mainElem # NoElement /\ prev.streamUrl = now.streamUrl THEN s
    ELSE [s EXCEPT !.mainElem = newElement(s),
                   !.playerElement = newElement(s),
                   !.mainTime = 0, !.mainPaused = TRUE, !.mainDuration = 0,
                   !.playEventPending = FALSE]

adVideoMounted(r) == r.error = NoError /\ r.activeAd # NoAd

\* Commit of the ad <video key={slot:mediaUrl}> element.
commitAdVideo(s, prev, now) ==
    IF adVideoMounted(now) /\ adVideoMounted(prev)
       /\ prev.activeAd = now.activeAd
    THEN s
    ELSE [s EXCEPT !.adTime = 0, !.adSignals = {}, !.adPlayPromise = FALSE]

\* useEffect(..., [disableVastAds, resetAdTrackingState, streamUrl]).
resetEffect(s) ==
    resetAdTrackingState(
        [s EXCEPT !.hasPrerollPlayedRef = FALSE,
                  !.hasMidrollPlayedRef = FALSE,
                  !.isFetchingPrerollRef = FALSE,
                  !.isFetchingMidrollRef = FALSE,
                  !.isAdPlayingRef = FALSE,
                  !.resumeMainAfterAdRef = FALSE,
                  !.resumeContentTimeRef = Null,
                  !.adSkipRemaining = Null,
                  !.prerollAdRef = NoAd,
                  !.midrollAdRef = NoAd,
                  !.activeAd = NoAd])

\* useEffect(..., [disableVastAds, finishAdBreak]).
disableEffect(s, now) ==
    IF ~now.disableVastAds THEN s
    ELSE LET s1 == [s EXCEPT !.prerollAdRef = NoAd, !.midrollAdRef = NoAd]
         IN  IF s1.isAdPlayingRef THEN finishAdBreak(s1, now.playerElement)
             ELSE s1

\* useEffect(..., [activeAd, fireAdError, fireAdEventTracking,
\* fireAdImpression, finishAdBreak]): the previous run is disposed; with an ad
\* and its video element, the handlers are registered, the video is rewound,
\* handleTimeUpdate is called once and play() is called.
adVideoEffect(s, now) ==
    IF ~adVideoMounted(now)
    THEN [s EXCEPT !.adPlayPromise = FALSE, !.rendered.adListening = FALSE,
                   !.dispatched =
                       IF now.activeAd = NoAd THEN NoneDispatched ELSE @,
                   !.breakTrigger = IF now.activeAd = NoAd THEN 0 ELSE @]
    ELSE [adHandleTimeUpdate(
              [s EXCEPT !.adTime = 0, !.rendered.adListening = TRUE])
             EXCEPT !.adPlayPromise = TRUE]

\* The effect that registers the handlers of the main player.
mainPlayerEffect(s, now) ==
    IF now.playerElement = NoElement
    THEN [s EXCEPT !.rendered.mainListening = NoElement,
                   !.seekTimerArmed = FALSE]
    ELSE [s EXCEPT !.error = NoError,
                   !.rendered.mainListening = now.playerElement,
                   !.seekTimerArmed = TRUE]

RenderPass(s) ==
    IF ~Dirty(s) THEN s
    ELSE
    LET prev == s.rendered
        now == [index |-> s.activeSourceIndex,
                streamUrl |-> SourceFile(s.activeSourceIndex),
                disableVastAds |-> s.disableVastAds,
                activeAd |-> s.activeAd,
                playerElement |-> s.playerElement,
                error |-> s.error,
                adSkipRemaining |-> s.adSkipRemaining,
                mainListening |-> prev.mainListening,
                adListening |-> prev.adListening]
        sourceChanged == prev.streamUrl # now.streamUrl
        disableChanged == prev.disableVastAds # now.disableVastAds
        finishChanged == prev.playerElement # now.playerElement
        c1 == commitAdVideo(commitMainElement(s, prev, now), prev, now)
        \* A source lifetime ends when streamUrl or disableVastAds changes.
        c2 == [c1 EXCEPT !.fetchCount =
                             IF disableChanged \/ sourceChanged
                             THEN [x \in AdSlot |-> 0] ELSE @,
                         !.midTicks =
                             IF disableChanged \/ sourceChanged THEN 0 ELSE @,
                         !.lifetime = IF sourceChanged THEN @ + 1 ELSE @,
                         !.rendered = now,
                         !.streamUrlRef = now.streamUrl,
                         !.disableVastAdsRef = now.disableVastAds,
                         !.activeAdRef = now.activeAd]
        e1 == IF disableChanged \/ sourceChanged THEN resetEffect(c2) ELSE c2
        e2 == IF disableChanged \/ finishChanged THEN disableEffect(e1, now)
              ELSE e1
        e3 == IF prev.activeAd # now.activeAd \/ finishChanged
              THEN adVideoEffect(e2, now) ELSE e2
        e4 == IF prev.index # now.index \/ disableChanged \/ finishChanged
                 \/ sourceChanged
              THEN mainPlayerEffect(e3, now) ELSE e3
    IN  e4

\* Renders until the committed values are those of the state.
Render(s) == RenderPass(RenderPass(RenderPass(RenderPass(s))))

mainHandlersLive(s) ==
    s.mainElem # NoElement /\ s.rendered.mainListening = s.mainElem

adHandlersLive(s) == adVideoMounted(s.rendered) /\ s.rendered.adListening

(***************************************************************************)
(* The player after its first render on the default source.                *)
(***************************************************************************)
PlayerInit(scenarios) ==
    /\ scenario \in scenarios
    /\ startIndex \in scenario.start
    /\ activeSourceIndex = startIndex
    /\ disableVastAds \in BOOLEAN
    /\ error = NoError
    /\ activeAd = NoAd
    /\ adSkipRemaining = Null
    /\ playerElement = 1
    /\ activeAdRef = NoAd
    /\ prerollAdRef = NoAd
    /\ midrollAdRef = NoAd
    /\ hasPrerollPlayedRef = FALSE
    /\ hasMidrollPlayedRef = FALSE
    /\ isFetchingPrerollRef = FALSE
    /\ isFetchingMidrollRef = FALSE
    /\ isAdPlayingRef = FALSE
    /\ resumeMainAfterAdRef = FALSE
    /\ resumeContentTimeRef = Null
    /\ adEventFiredRef = {}
    /\ hasReportedErrorRef = FALSE
    /\ streamUrlRef = SourceFile(startIndex)
    /\ disableVastAdsRef = disableVastAds
    /\ rendered = [index |-> startIndex,
                   streamUrl |-> SourceFile(startIndex),
                   disableVastAds |-> disableVastAds,
                   activeAd |-> NoAd,
                   playerElement |-> 1,
                   error |-> NoError,
                   adSkipRemaining |-> Null,
                   mainListening |-> 1,
                   adListening |-> FALSE]
    /\ mainElem = 1
    /\ mainTime = 0
    /\ mainPaused = TRUE
    /\ mainDuration = 0
    /\ playEventPending = FALSE
    /\ adTime = 0
    /\ adPlayPromise = FALSE
    /\ adSignals = {}
    /\ adFetches = {}
    /\ log = <<>>
    /\ dispatched = NoneDispatched
    /\ errors = 0
    /\ adsServed = [x \in AdSlot |-> 0]
    /\ breakTrigger = 0
    /\ fetchCount = [x \in AdSlot |-> 0]
    /\ switches = 0
    /\ toggles = 0
    /\ midTicks = 0
    /\ lifetime = 0
    /\ failed = {}
    /\ startAt = IF "startAt" \in DOMAIN scenario THEN scenario.startAt ELSE 0
    /\ hasAppliedStartAtRef = FALSE
    /\ seekTimerArmed = TRUE

(***************************************************************************)
(* Events of the main player.                                              *)
(***************************************************************************)
\* The media reports its duration.
MainLoadedMetadata ==
    /\ mainElem # NoElement
    /\ mainDuration = 0
    /\ Becomes([Now EXCEPT !.mainDuration = MainDuration])

\* The viewer presses play on the main player's controls (hidden under the
\* ad overlay while an ad is rendered).
UserPlay ==
    /\ mainElem # NoElement
    /\ mainPaused
    /\ rendered.activeAd = NoAd
    /\ Becomes([Now EXCEPT !.mainPaused = FALSE, !.playEventPending = TRUE])

\* Delivery of a queued play event.
MainPlay ==
    /\ mainElem # NoElement
    /\ playEventPending
    /\ LET s == [Now EXCEPT !.playEventPending = FALSE]
       IN  Becomes(IF mainHandlersLive(s) THEN handlePlay(s) ELSE s)

\* A canplay event of the main player, once the media is loaded.
MainCanPlay ==
    /\ mainHandlersLive(Now)
    /\ mainDuration > 0
    /\ Becomes(handleCanPlay(Now))

\* The timer of the fallback seek fires.
FallbackSeekTimer ==
    /\ seekTimerArmed
    /\ Becomes(fallbackSeek([Now EXCEPT !.seekTimerArmed = FALSE]))

\* The main player is at or past the midpoint of a known duration.
AtOrPastMidpoint(duration, currentTime) ==
    duration > 0 /\ 2 * currentTime >= duration

\* The timeupdate handler.  midTicks notes that, in this source lifetime, a
\* timeupdate at or past the midpoint was delivered with ads enabled, no ad
\* playing, hasMidrollPlayed false and no midroll ad held.
timeUpdateDelivered(s) ==
    LET counted == /\ ~s.isAdPlayingRef
                   /\ ~s.rendered.disableVastAds
                   /\ ~s.hasMidrollPlayedRef
                   /\ s.midrollAdRef = NoAd
                   /\ AtOrPastMidpoint(s.mainDuration, s.mainTime)
        s1 == IF counted /\ s.midTicks < 1
              THEN [s EXCEPT !.midTicks = @ + 1] ELSE s
    IN  IF mainHandlersLive(s) THEN handleTimeUpdate(s1) ELSE s

\* Playback advances by one second and a timeupdate is delivered.
MainTick ==
    /\ mainElem # NoElement
    /\ ~mainPaused
    /\ mainDuration > 0
    /\ mainTime < mainDuration
    /\ Becomes(timeUpdateDelivered([Now EXCEPT !.mainTime = @ + 1]))

\* A timeupdate at the current position.
MainTimeUpdate ==
    /\ mainHandlersLive(Now)
    /\ Becomes(timeUpdateDelivered(Now))

\* An error event of the main player.
MainError ==
    /\ mainHandlersLive(Now)
    /\ errors < scenario.errors
    /\ Becomes(handleError([Now EXCEPT !.errors = @ + 1,
                                        !.failed = @ \cup {rendered.index}]))

\* A fetchVastAd promise settles, with an ad or with null.
AdFetchSettles ==
    \E f \in adFetches :
        \/ Becomes(adFetchSettled(Now, f, NoAd))
        \/ /\ adsServed[f.slot] < scenario.ads[f.slot]
           /\ Becomes(adFetchSettled([Now EXCEPT !.adsServed[f.slot] = @ + 1],
                                     f, AdServed(f.slot)))

(***************************************************************************)
(* Events of the ad video.                                                 *)
(***************************************************************************)
adVideoRunning ==
    /\ adVideoMounted(rendered)
    /\ "error" \notin adSignals
    /\ "ended" \notin adSignals

withAdHandlers(s, handled) == IF adHandlersLive(s) THEN handled ELSE s

\* The ad advances by one second (its play() promise is then fulfilled) and
\* a timeupdate is delivered.
AdTick ==
    /\ adVideoRunning
    /\ adTime < AdLength
    /\ LET s == [Now EXCEPT !.adTime = @ + 1, !.adPlayPromise = FALSE]
       IN  Becomes(withAdHandlers(s, adHandleTimeUpdate(s)))

\* loadedmetadata, durationchange or timeupdate at the current position.
AdTimeUpdate ==
    /\ adVideoRunning
    /\ adHandlersLive(Now)
    /\ Becomes(adHandleTimeUpdate(Now))

AdPlaying ==
    /\ adVideoRunning
    /\ adHandlersLive(Now)
    /\ Becomes(adHandlePlaying(Now))

AdEnded ==
    /\ adVideoRunning
    /\ adTime = AdLength
    /\ LET s == [Now EXCEPT !.adSignals = @ \cup {"ended"}]
       IN  Becomes(withAdHandlers(s, adHandleComplete(s)))

AdError ==
    /\ adVideoRunning
    /\ LET s == [Now EXCEPT !.adSignals = @ \cup {"error"},
                            !.adPlayPromise = IF adTime = 0 THEN @ ELSE FALSE]
       IN  Becomes(withAdHandlers(s, adHandleError(s)))

AdAbort ==
    /\ adVideoMounted(rendered)
    /\ "abort" \notin adSignals
    /\ "ended" \notin adSignals
    /\ LET s == [Now EXCEPT !.adSignals = @ \cup {"abort"}]
       IN  Becomes(withAdHandlers(s, adHandleError(s)))

\* The promise of adVideo.play() rejects: playback never started.
AdPlayRejected ==
    /\ adVideoMounted(rendered)
    /\ adPlayPromise
    /\ adTime = 0
    /\ LET s == [Now EXCEPT !.adPlayPromise = FALSE]
       IN  Becomes(withAdHandlers(s, adHandleError(s)))

(***************************************************************************)
(* Clicks, the prop change and the render.                                  *)
(***************************************************************************)
\* canSkipAd of the last render.
canSkipAd(r) == r.adSkipRemaining # Null /\ r.adSkipRemaining <= 0

skipClicked(s) ==
    LET ad == s.rendered.activeAd
    IN  finishAdBreak(
            fireAdEventTracking(fireAdEventTracking(s, ad, "skip"),
                                ad, "closeLinear"),
            s.rendered.playerElement)

\* The viewer clicks "Skip Ad".
SkipClick ==
    /\ adVideoMounted(rendered)
    /\ rendered.activeAd.skipOffsetHalves # Null
    /\ canSkipAd(rendered)
    /\ Becomes(Render(skipClicked(Now)))

visitSponsorClicked(s) ==
    fireAdEventTracking(fireTrackingPixels(s, "clickTracking"),
                        s.rendered.activeAd, "click")

\* The viewer clicks "Visit Sponsor".
ClickThrough ==
    /\ adVideoMounted(rendered)
    /\ rendered.activeAd.clickThrough
    /\ dispatched["clickTracking"] < scenario.clicks
    /\ Becomes(visitSponsorClicked(Now))

\* The viewer picks source i in the source dialog (under the ad overlay while
\* an ad is rendered).
ManualSwitch ==
    /\ rendered.error = NoError
    /\ rendered.activeAd = NoAd
    /\ switches < scenario.switches
    /\ \E i \in SourceIndexes \ {rendered.index} :
           Becomes(Render([switchSource(Now, i)
                              EXCEPT !.switches = @ + 1]))

\* The parent re-renders the player with the other value of disableVastAds.
ToggleAds ==
    /\ toggles < scenario.toggles
    /\ Becomes(Render([Now EXCEPT !.disableVastAds = ~@,
                                  !.toggles = @ + 1]))

\* React commits the state the handlers have set.
RenderStep ==
    /\ Dirty(Now)
    /\ Becomes(Render(Now))

\* The steps of every run.
PlaybackNext ==
    \/ MainLoadedMetadata
    \/ UserPlay
    \/ MainPlay
    \/ MainTick
    \/ MainTimeUpdate
    \/ AdFetchSettles
    \/ AdTick
    \/ AdTimeUpdate
    \/ AdPlaying
    \/ AdEnded
    \/ AdError
    \/ AdAbort
    \/ AdPlayRejected
    \/ RenderStep

(***************************************************************************)
(* VAST resolution: resolveVastDirect (client) and resolveVastAd (server).  *)
(*                                                                         *)
(* A text taken from a document is a reference (host "" when relative)      *)
(* that may be wrapped in CDATA or padded with white space.  A URL is a     *)
(* reference with a host.  A document lists, per tag, the texts of its      *)
(* elements in document order.                                             *)
(***************************************************************************)
VAST_MAX_WRAPPER_DEPTH == 3
MAX_WRAPPER_DEPTH == 3

\* Bounds of the webs of documents explored.
MaxDocs == 6
MaxChain == 5
VariedDocs == 2

AdHost == "ads.example"
TrackerHost == "t.example"

Text(host, path, cdata, pad) ==
    [host |-> host, path |-> path, cdata |-> cdata, pad |-> pad]

Plain(host, path) == Text(host, path, FALSE, FALSE)

Url(host, path) == Text(host, path, FALSE, FALSE)

\* A path is a name and a number.
Path(name, n) == <<name, n>>

EmptyString == Url("", Path("", 0))

Range(seq) == { seq[i] : i \in 1..Len(seq) }

\* value.trim()
trim(value) == [value EXCEPT !.pad = FALSE]

\* sanitizeXmlValue: the CDATA wrapper is removed and the value trimmed.
sanitizeXmlValue(value) == trim([value EXCEPT !.cdata = FALSE])

\* resolveUrl: new URL(value, baseUrl).toString().
resolveUrl(value, baseUrl) ==
    IF value.host = "" THEN Url(baseUrl.host, value.path)
    ELSE Url(value.host, value.path)

RECURSIVE nonEmptyValues(_)
nonEmptyValues(values) ==
    IF values = <<>> THEN <<>>
    ELSE IF Head(values) = EmptyString THEN nonEmptyValues(Tail(values))
         ELSE <<Head(values)>> \o nonEmptyValues(Tail(values))

\* extractTagValues: the sanitized contents of the elements named tagName,
\* without the empty ones.
extractTagValues(xml, tagName) ==
    nonEmptyValues([i \in 1..Len(xml[tagName]) |->
                        sanitizeXmlValue(xml[tagName][i])])

\* .map((url) => resolveUrl(url, baseUrl)).filter((url) => url.length > 0)
resolvedTagValues(xml, tagName, baseUrl) ==
    LET values == extractTagValues(xml, tagName)
    IN  nonEmptyValues([i \in 1..Len(values) |-> resolveUrl(values[i], baseUrl)])

\* A list handed on as it is.
keepAllTrackingUrls(urls) == urls

RECURSIVE dedupeTrackingUrlsFrom(_, _, _)
dedupeTrackingUrlsFrom(urls, seen, result) ==
    IF urls = <<>> THEN result
    ELSE LET url == trim(Head(urls))
         IN  IF url = EmptyString \/ url \in seen
             THEN dedupeTrackingUrlsFrom(Tail(urls), seen, result)
             ELSE dedupeTrackingUrlsFrom(Tail(urls), seen \cup {url},
                                         Append(result, url))

dedupeTrackingUrls(urls) == dedupeTrackingUrlsFrom(urls, {}, <<>>)

\* eventName.trim().toLowerCase()
lowerTrimmed(eventName) ==
    CASE eventName = "Start " -> "start"
      [] eventName = "COMPLETE" -> "complete"
      [] eventName = "firstQuartile" -> "firstquartile"
      [] OTHER -> eventName

NoEventKey == "null"

normalizeTrackingEventName(eventName) ==
    LET normalized == lowerTrimmed(eventName)
    IN  CASE normalized = "" -> NoEventKey
          [] normalized = "start" -> "start"
          [] normalized = "firstquartile" -> "firstQuartile"
          [] normalized = "midpoint" -> "midpoint"
          [] normalized = "thirdquartile" -> "thirdQuartile"
          [] normalized = "complete" -> "complete"
          [] normalized = "skip" -> "skip"
          [] normalized = "closelinear" -> "closeLinear"
          [] normalized = "click" -> "click"
          [] OTHER -> NoEventKey

\* The <Tracking> elements extractTrackingEvents keeps, with their key and
\* resolved URL, in document order.
trackingEntries(xml, baseUrl) ==
    LET entry(i) ==
            [key |-> normalizeTrackingEventName(xml.Tracking[i].event),
             url |-> IF sanitizeXmlValue(xml.Tracking[i].value) = EmptyString
                     THEN EmptyString
                     ELSE resolveUrl(sanitizeXmlValue(xml.Tracking[i].value),
                                     baseUrl)]
        kept(e) == e.key # NoEventKey /\ e.url # EmptyString
    IN  SelectSeq([i \in 1..Len(xml.Tracking) |-> entry(i)], kept)

extractTrackingEvents(xml, baseUrl) ==
    LET entries == trackingEntries(xml, baseUrl)
        keys == { entries[i].key : i \in 1..Len(entries) }
        ofKey(key) ==
            LET has(e) == e.key = key
                chosen == SelectSeq(entries, has)
            IN  [i \in 1..Len(chosen) |-> chosen[i].url]
    IN  [key \in keys |-> dedupeTrackingUrls(ofKey(key))]

urlsOf(map, key) == IF key \in DOMAIN map THEN map[key] ELSE <<>>

\* The map of the wrapper alone.
keepBaseTracking(base, extra) == base

mergeTrackingMaps(base, extra) ==
    LET keys == DOMAIN base \cup DOMAIN extra
        urls(key) == dedupeTrackingUrls(urlsOf(base, key) \o urlsOf(extra, key))
        set == { key \in keys : urls(key) # <<>> }
    IN  [key \in DOMAIN base \cup set |->
            IF key \in set THEN urls(key) ELSE base[key]]

VAST_MEDIA_TYPE_PRIORITY ==
    <<"video/mp4", "application/x-mpegurl", "application/vnd.apple.mpegurl",
      "video/webm">>

\* type.toLowerCase()
toLowerCase(type) == IF type = "VIDEO/MP4" THEN "video/mp4" ELSE type

\* text.includes(part), for the types and the path names of the model.
includes(text, part) ==
    CASE part = "mp4" -> text \in {"video/mp4", "video/x-mp4"}
      [] part = "mpegurl" -> text \in {"application/x-mpegurl",
                                       "application/vnd.apple.mpegurl"}
      [] part = ".mp4" -> text \in {"ad.mp4", "bare.mp4", "ad.mp4/master.m3u8"}
      [] part = ".m3u8" -> text \in {"master.m3u8", "ad.mp4/master.m3u8"}
      [] OTHER -> FALSE

\* Math.min
Min(a, b) == IF a <= b THEN a ELSE b

\* No attribute of that name, or Number(...) || undefined of a zero.
Undefined == Null

\* The URL bonus given to the path's ending alone.
urlScoreOfEnding(url) ==
    IF url.path[1] \in {"ad.mp4", "bare.mp4"} THEN 20
    ELSE IF url.path[1] \in {"master.m3u8", "ad.mp4/master.m3u8"} THEN 15
    ELSE 0

\* The URL part of rankMediaCandidate's score.
urlScore(url) ==
    (IF includes(url.path[1], ".mp4") THEN 20 ELSE 0)
    + (IF includes(url.path[1], ".m3u8") THEN 15 ELSE 0)

\* rankMediaCandidate, in hundred-thousandths of a point: the bit rate and
\* the dimensions are whole numbers, so every score is a whole number of
\* them.
rankMediaCandidate(candidate) ==
    LET type == toLowerCase(candidate.type)
        exact == { i \in 1..Len(VAST_MEDIA_TYPE_PRIORITY) :
                     VAST_MEDIA_TYPE_PRIORITY[i] = type }
        exactTypeIndex == (CHOOSE i \in exact : TRUE) - 1
        points ==
            (IF type # "" /\ exact # {} THEN 200 - exactTypeIndex * 20 ELSE 0)
            + (IF type # "" /\ includes(type, "mp4") THEN 20 ELSE 0)
            + (IF type # "" /\ includes(type, "mpegurl") THEN 15 ELSE 0)
            + urlScore(candidate.url)
    IN  points * 100000
        + (IF candidate.bitrate # Undefined
           THEN Min(candidate.bitrate * 1000, 20 * 100000) ELSE 0)
        + (IF candidate.width # Undefined /\ candidate.height # Undefined
           THEN Min(candidate.width * candidate.height, 15 * 100000) ELSE 0)

\* Number(value || 0) || undefined
numberOrUndefined(value) ==
    IF value = Undefined \/ value = 0 THEN Undefined ELSE value

extractMediaCandidates(xml, baseUrl) ==
    LET filled(m) == sanitizeXmlValue(m.value) # EmptyString
        files == SelectSeq(xml.MediaFile, filled)
    IN  [i \in 1..Len(files) |->
            [url |-> resolveUrl(sanitizeXmlValue(files[i].value), baseUrl),
             type |-> toLowerCase(files[i].type),
             bitrate |-> numberOrUndefined(
                             IF files[i].bitrate # Undefined
                             THEN files[i].bitrate ELSE files[i].minbitrate),
             width |-> numberOrUndefined(files[i].width),
             height |-> numberOrUndefined(files[i].height)]]

\* A sort that puts a candidate in front of those of the same rank.
RECURSIVE sortLatestFirst(_)
sortLatestFirst(candidates) ==
    LET rest == sortLatestFirst(Tail(candidates))
        first == Head(candidates)
        ahead == { i \in 1..Len(rest) :
                     rankMediaCandidate(rest[i]) >= rankMediaCandidate(first) }
        n == Cardinality(ahead)
    IN  IF candidates = <<>> THEN <<>>
        ELSE SubSeq(rest, 1, n) \o <<first>> \o SubSeq(rest, n + 1, Len(rest))

\* [...candidates].sort((a, b) => rank(b) - rank(a)): by falling rank, the
\* candidates of one rank in the order they had (the sort is stable).
RECURSIVE sortByRank(_)
sortByRank(candidates) ==
    LET rest == sortByRank(SubSeq(candidates, 1, Len(candidates) - 1))
        last == candidates[Len(candidates)]
        ahead == { i \in 1..Len(rest) :
                     rankMediaCandidate(rest[i]) >= rankMediaCandidate(last) }
        n == Cardinality(ahead)
    IN  IF candidates = <<>> THEN <<>>
        ELSE SubSeq(rest, 1, n) \o <<last>> \o SubSeq(rest, n + 1, Len(rest))

\* pickBestMediaUrl: the first of the sorted candidates, else a media URL
\* found anywhere in the text, else none.
pickBestMediaUrl(xml, baseUrl) ==
    LET candidates == extractMediaCandidates(xml, baseUrl)
    IN  IF Len(candidates) > 0 THEN sortByRank(candidates)[1].url
        ELSE IF xml.directMatch # EmptyString
             THEN resolveUrl(xml.directMatch, baseUrl)
             ELSE EmptyString

NullAd == [kind |-> "null"]
Pending == [kind |-> "pending"]
NoResolution == [kind |-> "idle"]

trackingOf(xml, baseUrl) ==
    [impressionUrls |->
         dedupeTrackingUrls(resolvedTagValues(xml, "Impression", baseUrl)),
     errorUrls |-> dedupeTrackingUrls(resolvedTagValues(xml, "Error", baseUrl)),
     clickTrackingUrls |->
         dedupeTrackingUrls(resolvedTagValues(xml, "ClickTracking", baseUrl)),
     tracking |-> extractTrackingEvents(xml, baseUrl)]

NoTracking ==
    [impressionUrls |-> <<>>, errorUrls |-> <<>>, clickTrackingUrls |-> <<>>,
     tracking |-> <<>>]

\* parseVastXmlToAd (without the click-through, duration and skip offset,
\* which a wrapper hands on untouched).
parseVastXmlToAd(xml, baseUrl) ==
    LET mediaUrl == pickBestMediaUrl(xml, baseUrl)
        own == trackingOf(xml, baseUrl)
    IN  IF mediaUrl = EmptyString THEN NullAd
        ELSE [kind |-> "ad", mediaUrl |-> mediaUrl,
              impressionUrls |-> own.impressionUrls,
              errorUrls |-> own.errorUrls,
              clickTrackingUrls |-> own.clickTrackingUrls,
              tracking |-> own.tracking]

\* The inline ad resolveVastAd builds.
serverInlineAd(xml, baseUrl) ==
    LET mediaUrl == pickBestMediaUrl(xml, baseUrl)
    IN  IF mediaUrl = EmptyString THEN NullAd
        ELSE [kind |-> "ad", mediaUrl |-> mediaUrl]

\* What a wrapper of resolveVastDirect returns for the ad of its child.
withWrapperTracking(wrapperTracking, resolved) ==
    [resolved EXCEPT
       !.impressionUrls =
           dedupeTrackingUrls(wrapperTracking.impressionUrls
                              \o resolved.impressionUrls),
       !.errorUrls =
           dedupeTrackingUrls(wrapperTracking.errorUrls \o resolved.errorUrls),
       !.clickTrackingUrls =
           dedupeTrackingUrls(wrapperTracking.clickTrackingUrls
                              \o resolved.clickTrackingUrls),
       !.tracking = mergeTrackingMaps(wrapperTracking.tracking,
                                      resolved.tracking)]

\* The guard at the head of resolveVastDirect, and one that lets a level more
\* through.
wrapperDepthPlusOneExceeded(depth) == depth > VAST_MAX_WRAPPER_DEPTH + 1

wrapperDepthExceeded(depth) == depth > VAST_MAX_WRAPPER_DEPTH

\* The guard at the head of resolveVastAd.
serverWrapperDepthExceeded(depth) == depth > MAX_WRAPPER_DEPTH

depthExceeded(side, depth) ==
    IF side = "client" THEN wrapperDepthExceeded(depth)
    ELSE serverWrapperDepthExceeded(depth)

(***************************************************************************)
(* The webs of documents.  Document i is served at DocUrl(i).  A shape      *)
(* says, per document, how the server answers and where a wrapper points;   *)
(* the trackers of a document are those of one of three creatives.          *)
(***************************************************************************)
DocIndexes == 0..(MaxDocs - 1)

DocUrl(i) == Url(AdHost, Path("vast", i))

Tracker(name, n) == Plain(TrackerHost, Path(name, n))

\* Document i's reference to document j: relative to odd documents,
\* absolute and in CDATA to even ones; a negative j is an empty element.
LinkText(j) ==
    IF j < 0 THEN Text("", Path("", 0), TRUE, TRUE)
    ELSE IF j % 2 = 1 THEN Text("", Path("vast", j), FALSE, TRUE)
    ELSE Text(AdHost, Path("vast", j), TRUE, FALSE)

CreativeIds == {0, 1, 2}

Trackers(creative) ==
    CASE creative = 0 ->
           [Impression |-> <<Plain("", Path("i", 1))>>,
            Error |-> <<>>,
            ClickTracking |-> <<Tracker("c", 1)>>,
            Tracking |-> <<[event |-> "start", value |-> Tracker("s", 1)]>>]
      [] creative = 1 ->
           [Impression |-> <<Text(AdHost, Path("i", 1), TRUE, FALSE),
                             Tracker("i", 2),
                             Text(AdHost, Path("i", 1), FALSE, TRUE)>>,
            Error |-> <<Tracker("e", 1)>>,
            ClickTracking |-> <<Tracker("c", 1), Plain("", Path("", 0))>>,
            Tracking |-> <<[event |-> "Start ", value |-> Tracker("s", 1)],
                           [event |-> "COMPLETE", value |-> Tracker("s", 2)],
                           [event |-> "creativeView",
                            value |-> Tracker("s", 3)],
                           [event |-> "start",
                            value |-> Text("", Path("", 0), FALSE, TRUE)]>>]
      [] OTHER ->
           [Impression |-> <<Tracker("i", 2), Plain("", Path("i", 1))>>,
            Error |-> <<Tracker("e", 1), Tracker("e", 2)>>,
            ClickTracking |-> <<>>,
            Tracking |-> <<[event |-> "complete", value |-> Tracker("s", 1)],
                           [event |-> "start", value |-> Tracker("s", 2)],
                           [event |-> "start", value |-> Tracker("s", 1)]>>]

\* A <MediaFile> element: its text and its attributes.
MediaFile(value, type, bitrate, minbitrate, width, height) ==
    [value |-> value, type |-> type, bitrate |-> bitrate,
     minbitrate |-> minbitrate, width |-> width, height |-> height]

MediaFiles ==
    <<MediaFile(Plain("", Path("ad.webm", 0)), "video/webm",
                Undefined, Undefined, Undefined, Undefined),
      MediaFile(Text("cdn.example", Path("ad.mp4", 0), TRUE, FALSE), "video/mp4",
                Undefined, Undefined, Undefined, Undefined),
      MediaFile(Text("", Path("", 0), FALSE, TRUE), "video/mp4",
                Undefined, Undefined, Undefined, Undefined)>>

\* The answer of the server for a document of the given body.
Document(body, links, creative) ==
    IF body = "refused" THEN [ok |-> FALSE, blank |-> TRUE]
    ELSE IF body = "blank" THEN [ok |-> TRUE, blank |-> TRUE]
    ELSE [ok |-> TRUE, blank |-> FALSE,
          MediaFile |-> IF body = "inline" THEN MediaFiles ELSE <<>>,
          directMatch |-> IF body = "bare"
                          THEN Url("cdn.example", Path("bare.mp4", 0))
                          ELSE EmptyString,
          Impression |-> Trackers(creative).Impression,
          Error |-> Trackers(creative).Error,
          ClickTracking |-> Trackers(creative).ClickTracking,
          Tracking |-> Trackers(creative).Tracking,
          VASTAdTagURI |-> [k \in 1..Len(links) |-> LinkText(links[k])]]

Refused == [body |-> "refused", links |-> <<>>]

WrapperTo(links) == [body |-> "wrapper", links |-> links]

\* A chain of k wrappers that ends in an inline ad at depth k.
Chain(k) ==
    [i \in DocIndexes |->
        IF i < k THEN WrapperTo(<<i + 1>>)
        ELSE IF i = k THEN [body |-> "inline", links |-> <<>>]
        ELSE Refused]

Shapes ==
    { Chain(k) : k \in 0..MaxChain }
    \cup
    { \* a wrapper that references itself, once and twice
      [i \in DocIndexes |-> IF i = 0 THEN WrapperTo(<<0>>) ELSE Refused],
      [i \in DocIndexes |-> IF i = 0 THEN WrapperTo(<<0, 0>>) ELSE Refused],
      \* two wrappers that reference each other
      [i \in DocIndexes |->
          IF i = 0 THEN WrapperTo(<<1>>)
          ELSE IF i = 1 THEN WrapperTo(<<0>>) ELSE Refused],
      \* a first reference that leads nowhere, then an inline ad
      [i \in DocIndexes |->
          IF i = 0 THEN WrapperTo(<<0 - 1, 1, 2>>)
          ELSE IF i = 1 THEN [body |-> "blank", links |-> <<>>]
          ELSE IF i = 2 THEN [body |-> "inline", links |-> <<0>>]
          ELSE Refused],
      [i \in DocIndexes |->
          IF i = 0 THEN WrapperTo(<<1, 2>>)
          ELSE IF i = 1 THEN WrapperTo(<<>>)
          ELSE IF i = 2 THEN [body |-> "bare", links |-> <<>>]
          ELSE Refused],
      \* a chain too deep first, then an inline ad next to the root
      [i \in DocIndexes |->
          IF i = 0 THEN WrapperTo(<<1, MaxChain>>)
          ELSE IF i < MaxChain - 1 THEN WrapperTo(<<i + 1>>)
          ELSE [body |-> "inline", links |-> <<>>]] }

\* Documents 0..VariedDocs take any creative, the others a fixed one.
CreativeChoices ==
    { c \in [DocIndexes -> CreativeIds] :
        \A i \in DocIndexes : i > VariedDocs => c[i] = i % 3 }

Webs ==
    { [url \in { DocUrl(i) : i \in DocIndexes } |->
          LET i == CHOOSE i \in DocIndexes : DocUrl(i) = url
          IN  Document(shape[i].body, shape[i].links, creatives[i])] :
      shape \in Shapes, creatives \in CreativeChoices }

(***************************************************************************)
(* The resolver as a machine: one activation per call, each at "fetch"      *)
(* while its request is out, at "loop" between two wrapper URLs and at      *)
(* "await" while the call for a wrapper URL runs.                          *)
(***************************************************************************)
Activation(sourceUrl, depth) ==
    [sourceUrl |-> sourceUrl, depth |-> depth, pc |-> "call",
     wrapperUrls |-> <<>>, wrapperTracking |-> NoTracking]

ResolverIdle ==
    /\ vastWeb = <<>>
    /\ vastSide = "client"
    /\ vastStack = <<>>
    /\ vastReturn = NoResolution
    /\ vastFetched = {}
    /\ vastPath = <<>>

ResolverInit ==
    /\ vastWeb \in Webs
    /\ vastSide \in {"client", "server"}
    /\ vastStack = <<Activation(DocUrl(0), 0)>>
    /\ vastReturn = Pending
    /\ vastFetched = {}
    /\ vastPath = <<>>

Innermost == vastStack[Len(vastStack)]

Outer == SubSeq(vastStack, 1, Len(vastStack) - 1)

Returns(value) ==
    /\ vastStack' = Outer
    /\ vastReturn' = value

Continues(activation) ==
    /\ vastStack' = Outer \o <<activation>>
    /\ vastReturn' = Pending

\* The call: the depth guard, then the request for the document.
VastCall ==
    /\ vastStack # <<>>
    /\ Innermost.pc = "call"
    /\ IF depthExceeded(vastSide, Innermost.depth)
       THEN /\ Returns(NullAd)
            /\ UNCHANGED vastFetched
       ELSE /\ Continues([Innermost EXCEPT !.pc = "fetch"])
            /\ vastFetched' = vastFetched \cup {Innermost.depth}
    /\ UNCHANGED <<vastWeb, vastSide, vastPath, playerVars,
                   tokenVars, playlistVars, parserVars, adRequestVars,
                   aggregationVars>>

\* fetch() rejects: network failure, or the abort of the request timeout.
VastFetchFails ==
    /\ vastStack # <<>>
    /\ Innermost.pc = "fetch"
    /\ Returns(NullAd)
    /\ UNCHANGED <<vastWeb, vastSide, vastFetched, vastPath, playerVars,
                   tokenVars, playlistVars, parserVars, adRequestVars,
                   aggregationVars>>

\* The response arrives: an inline ad is returned, a wrapper starts its loop.
\* (A request made with an aborted signal rejects.)
VastFetchResponds ==
    /\ vastStack # <<>>
    /\ Innermost.pc = "fetch"
    /\ ~adRequest.aborted
    /\ LET sourceUrl == Innermost.sourceUrl
           response == IF sourceUrl \in DOMAIN vastWeb THEN vastWeb[sourceUrl]
                       ELSE [ok |-> FALSE, blank |-> TRUE]
           inline == IF vastSide = "client"
                     THEN parseVastXmlToAd(response, sourceUrl)
                     ELSE serverInlineAd(response, sourceUrl)
       IN  IF ~response.ok \/ response.blank
           THEN Returns(NullAd) /\ UNCHANGED vastPath
           ELSE IF inline # NullAd
           THEN /\ Returns(inline)
                /\ vastPath' = [i \in 1..Len(vastStack) |->
                                   vastStack[i].sourceUrl]
           ELSE /\ Continues(
                     [Innermost EXCEPT
                        !.pc = "loop",
                        !.wrapperTracking =
                            IF vastSide = "client"
                            THEN trackingOf(response, sourceUrl)
                            ELSE NoTracking,
                        !.wrapperUrls =
                            resolvedTagValues(response, "VASTAdTagURI",
                                              sourceUrl)])
                /\ UNCHANGED vastPath
    /\ UNCHANGED <<vastWeb, vastSide, vastFetched, playerVars,
                   tokenVars, playlistVars, parserVars, adRequestVars,
                   aggregationVars>>

\* The for loop takes the next wrapper URL, or ends with null.
VastNextWrapper ==
    /\ vastStack # <<>>
    /\ Innermost.pc = "loop"
    /\ IF Innermost.wrapperUrls = <<>>
       THEN Returns(NullAd)
       ELSE /\ vastStack' =
                   Outer
                   \o <<[Innermost EXCEPT
                           !.pc = "await",
                           !.wrapperUrls = Tail(Innermost.wrapperUrls)]>>
                   \o <<Activation(Head(Innermost.wrapperUrls),
                                   Innermost.depth + 1)>>
            /\ vastReturn' = Pending
    /\ UNCHANGED <<vastWeb, vastSide, vastFetched, vastPath, playerVars,
                   tokenVars, playlistVars, parserVars, adRequestVars,
                   aggregationVars>>

\* The awaited call has returned: null goes on with the loop, an ad is
\* returned (by resolveVastDirect with the wrapper's trackers merged in).
VastResume ==
    /\ vastStack # <<>>
    /\ Innermost.pc = "await"
    /\ vastReturn # Pending
    /\ IF vastReturn = NullAd
       THEN Continues([Innermost EXCEPT !.pc = "loop"])
       ELSE Returns(IF vastSide = "client"
                    THEN withWrapperTracking(Innermost.wrapperTracking,
                                             vastReturn)
                    ELSE vastReturn)
    /\ UNCHANGED <<vastWeb, vastSide, vastFetched, vastPath, playerVars,
                   tokenVars, playlistVars, parserVars, adRequestVars,
                   aggregationVars>>

ResolverNext ==
    \/ VastCall
    \/ VastFetchFails
    \/ VastFetchResponds
    \/ VastNextWrapper
    \/ VastResume

VastDone == vastStack = <<>> /\ vastReturn # Pending

(***************************************************************************)
(* fetchVastAd: the direct ad tag first, then the internal endpoint, under  *)
(* one AbortController whose timer runs from the call.                      *)
(***************************************************************************)
\* payload.mediaUrl when it is not a string.
NotAString == [undefined |-> TRUE]

BlankMedia == Text("", Path("", 0), FALSE, TRUE)

PaddedMedia == Text(AdHost, Path("media", 0), FALSE, TRUE)

\* What GET /api/player/vast answers: the request rejects, a non-2xx
\* status, or a payload.
EndpointAnswer(status, enabled, mediaUrl) ==
    [status |-> status, enabled |-> enabled, mediaUrl |-> mediaUrl]

EndpointAnswers ==
    { EndpointAnswer("rejects", FALSE, NotAString),
      EndpointAnswer("500", FALSE, NotAString),
      EndpointAnswer("200", FALSE, NotAString),
      EndpointAnswer("200", TRUE, NotAString),
      EndpointAnswer("200", TRUE, BlankMedia),
      EndpointAnswer("200", TRUE, PaddedMedia) }

AdRequest(pc, tagConfigured, endpoint) ==
    [pc |-> pc, tagConfigured |-> tagConfigured, endpoint |-> endpoint,
     aborted |-> FALSE, abortedAt |-> "none", result |-> Pending]

NoAdRequest ==
    AdRequest("idle", FALSE, EndpointAnswer("rejects", FALSE, NotAString))

AdRequestIdle == adRequest = NoAdRequest

\* The second half of fetchVastAd: the fetch of the endpoint with the
\* controller's signal (it rejects when the signal is aborted, and the
\* catch returns null), and the ad built from the payload.
endpointAd(answer, aborted) ==
    IF aborted \/ answer.status = "rejects" THEN NullAd
    ELSE IF answer.status # "200" THEN NullAd
    ELSE IF ~answer.enabled THEN NullAd
    ELSE IF answer.mediaUrl = NotAString THEN NullAd
    ELSE IF trim(answer.mediaUrl) = EmptyString THEN NullAd
    ELSE [kind |-> "ad", mediaUrl |-> trim(answer.mediaUrl),
          impressionUrls |-> <<>>, errorUrls |-> <<>>,
          clickTrackingUrls |-> <<>>, tracking |-> <<>>]

AdRequestInit ==
    /\ adRequest \in { AdRequest("start", c, e) :
                          c \in BOOLEAN, e \in EndpointAnswers }
    /\ vastWeb \in IF adRequest.tagConfigured THEN Webs
                   ELSE {CHOOSE w \in Webs : TRUE}
    /\ vastSide = "client"
    /\ vastStack = <<>>
    /\ vastReturn = NoResolution
    /\ vastFetched = {}
    /\ vastPath = <<>>

\* fetchVastAd is called: resolveVastDirect for a configured tag, otherwise
\* the request to the endpoint.
FetchVastAdCalled ==
    /\ adRequest.pc = "start"
    /\ IF adRequest.tagConfigured
       THEN /\ adRequest' = [adRequest EXCEPT !.pc = "direct"]
            /\ vastStack' = <<Activation(DocUrl(0), 0)>>
            /\ vastReturn' = Pending
       ELSE /\ adRequest' = [adRequest EXCEPT !.pc = "endpoint"]
            /\ UNCHANGED <<vastStack, vastReturn>>
    /\ UNCHANGED <<vastWeb, vastSide, vastFetched, vastPath, playerVars,
                   tokenVars, playlistVars, parserVars, aggregationVars>>

\* resolveVastDirect has returned: its ad is returned, null leads to the
\* request to the endpoint.
DirectResolved ==
    /\ adRequest.pc = "direct"
    /\ VastDone
    /\ adRequest' =
           IF vastReturn # NullAd
           THEN [adRequest EXCEPT !.pc = "done", !.result = vastReturn]
           ELSE [adRequest EXCEPT !.pc = "endpoint"]
    /\ UNCHANGED <<resolverVars, playerVars, tokenVars, playlistVars,
                   parserVars, aggregationVars>>

\* The timer of VAST_REQUEST_TIMEOUT_MS fires: controller.abort().
RequestDeadline ==
    /\ adRequest.pc \in {"direct", "endpoint"}
    /\ ~adRequest.aborted
    /\ adRequest' = [adRequest EXCEPT !.aborted = TRUE,
                                      !.abortedAt = adRequest.pc]
    /\ UNCHANGED <<resolverVars, playerVars, tokenVars, playlistVars,
                   parserVars, aggregationVars>>

\* The request to the endpoint settles and fetchVastAd returns.
EndpointSettles ==
    /\ adRequest.pc = "endpoint"
    /\ adRequest' =
           [adRequest EXCEPT
               !.pc = "done",
               !.result = endpointAd(adRequest.endpoint, adRequest.aborted)]
    /\ UNCHANGED <<resolverVars, playerVars, tokenVars, playlistVars,
                   parserVars, aggregationVars>>

AdRequestNext ==
    \/ FetchVastAdCalled
    \/ ResolverNext
    \/ DirectResolved
    \/ RequestDeadline
    \/ EndpointSettles

(***************************************************************************)
(* The source aggregation endpoint (vixsrc-playlist/route.ts) and the       *)
(* player's loadPlaylist.  A value of the upstream JSON is a string         *)
(* ([string |-> chars]), null, or not a string; a file is the worker proxy  *)
(* URL of an upstream URL with its header set.                              *)
(***************************************************************************)
MaxPayloadSources == 2

StringValue(chars) == [string |-> chars]
NullElement == [null |-> TRUE]
IsString(v) == DOMAIN v = {"string"}

Threw == [threw |-> TRUE]
NoSource == [source |-> FALSE]

CITY_SERVER_PROVIDERS ==
    [opuk |-> "amsterdam", vixsrc |-> "berlin", wolfflix |-> "brussels",
     primevids |-> "cairo", asiacloudHindi |-> "delhi"]

OPUK_CITY_PROVIDER == "amsterdam"

\* buildWorkerM3u8ProxyUrl: the URL is a function of the upstream URL and
\* of the JSON of the headers.
buildWorkerM3u8ProxyUrl(m3u8Url, headers) ==
    [url |-> m3u8Url, headers |-> headers]

PlaylistSource(file, provider) ==
    [type |-> "hls", file |-> file, provider |-> provider]

\* What the page of vixsrc answers: the request throws (or is aborted after
\* REQUEST_TIMEOUT_MS), a non-OK status, a page without a master playlist,
\* or a page with one.
VixsrcOutcomes == {"throws", "notOk", "noMaster", "master"}

vixsrcSourceOf(outcome) ==
    IF outcome = "master"
    THEN PlaylistSource(buildWorkerM3u8ProxyUrl("vix", {"Referer", "Origin",
                                                        "User-Agent"}),
                        CITY_SERVER_PROVIDERS.vixsrc)
    ELSE NoSource

\* What the secure-stream API of opuk answers, and fetchOpukSecureUrl.
OpukOutcomes == {"throws", "notOk", "unusable", "secureUrl"}

fetchOpukSecureUrl(outcome) ==
    IF outcome = "secureUrl" THEN StringValue("opuk") ELSE NullElement

buildOpukFallback(secureUrl) ==
    PlaylistSource(buildWorkerM3u8ProxyUrl(secureUrl.string,
                                           {"Referer", "Origin", "User-Agent"}),
                   CITY_SERVER_PROVIDERS.opuk)

\* A CinemaSource of the upstream JSON; headers is the set of header names
\* it carries.
CinemaSource(url, quality, headers) ==
    [url |-> url, quality |-> quality, headers |-> headers]

PrimeElements ==
    { NullElement,
      CinemaSource(NotAString, "1080p", {}),
      CinemaSource(StringValue(""), "1080p", {}),
      CinemaSource(StringValue("cinema"), "1080p", {}),
      CinemaSource(StringValue("cinema"), "1080p", {"Referer", "Origin"}) }

AsiaElements ==
    { NullElement,
      CinemaSource(StringValue(""), "Hindi", {"Referer", "Origin"}),
      CinemaSource(StringValue("cinema"), "Hindi", {"Referer", "Origin"}),
      CinemaSource(StringValue("dubbed"), "Dubbed Hindi", {}),
      CinemaSource(StringValue("cinema"), "1080p", {"Referer", "Origin"}) }

ListsOf(elements) ==
    UNION { [1..n -> elements] : n \in 0..MaxPayloadSources }

\* What the cinema API answers for one service: the request throws, a
\* non-OK status, a payload without an array of sources, or the array.
CinemaOutcome(kind, sources) == [kind |-> kind, sources |-> sources]

CinemaOutcomes(elements) ==
    { CinemaOutcome(kind, <<>>) : kind \in {"throws", "notOk", "notArray"} }
        \cup { CinemaOutcome("sources", l) : l \in ListsOf(elements) }

fetchCinemaProviderSources(outcome) ==
    IF outcome.kind = "sources" THEN outcome.sources ELSE <<>>

extractCinemaSource(source) ==
    IF ~IsString(source.url) \/ source.url = StringValue("")
    THEN NoSource
    ELSE [source |-> TRUE, url |-> source.url.string,
          headers |-> source.headers]

buildPrimeVidsFallback(source) ==
    LET resolved == extractCinemaSource(source)
    IN  IF resolved = NoSource THEN NoSource
        ELSE PlaylistSource(
                 buildWorkerM3u8ProxyUrl(
                     resolved.url, resolved.headers \cup {"Referer", "Origin"}),
                 CITY_SERVER_PROVIDERS.primevids)

\* sources.find((source) => typeof source.url === "string"): reading .url
\* of a null element throws a TypeError.
RECURSIVE findStringUrl(_)
findStringUrl(sources) ==
    IF sources = <<>> THEN NoSource
    ELSE IF Head(sources) = NullElement THEN Threw
    ELSE IF IsString(Head(sources).url) THEN Head(sources)
    ELSE findStringUrl(Tail(sources))

primeSourceOf(sources) ==
    LET candidate == findStringUrl(sources)
    IN  IF candidate = Threw \/ candidate = NoSource THEN candidate
        ELSE buildPrimeVidsFallback(candidate)

\* String(source.quality || "").toLowerCase()
lowerQuality(quality) ==
    CASE quality = "Hindi" -> "hindi"
      [] quality = "Dubbed Hindi" -> "dubbed hindi"
      [] OTHER -> quality

includesHindi(quality) == quality \in {"hindi", "dubbed hindi"}

RECURSIVE findHindiExact(_)
findHindiExact(sources) ==
    IF sources = <<>> THEN NoSource
    ELSE IF Head(sources) = NullElement THEN Threw
    ELSE IF lowerQuality(Head(sources).quality) = "hindi" THEN Head(sources)
    ELSE findHindiExact(Tail(sources))

RECURSIVE findHindiLoose(_)
findHindiLoose(sources) ==
    IF sources = <<>> THEN NoSource
    ELSE IF Head(sources) = NullElement THEN Threw
    ELSE IF includesHindi(lowerQuality(Head(sources).quality))
    THEN Head(sources)
    ELSE findHindiLoose(Tail(sources))

buildAsiacloudHindiFallback(sources) ==
    LET hindiExact == findHindiExact(sources)
        hindiLoose == findHindiLoose(sources)
        selected == IF hindiExact # NoSource THEN hindiExact ELSE hindiLoose
    IN  IF hindiExact = Threw \/ hindiLoose = Threw THEN Threw
        ELSE IF selected = NoSource THEN NoSource
        ELSE LET resolved == extractCinemaSource(selected)
             IN  IF resolved = NoSource THEN NoSource
                 ELSE PlaylistSource(
                          buildWorkerM3u8ProxyUrl(resolved.url,
                                                  resolved.headers),
                          CITY_SERVER_PROVIDERS.asiacloudHindi)

\* The sources getSecondarySources pushes, in its order; threw says that
\* the code after Promise.allSettled throws instead.
SecondarySources(threw, sources) == [threw |-> threw, sources |-> sources]

getSecondarySources(settled) ==
    LET opuk == IF settled.opuk.value # NullElement
                THEN <<buildOpukFallback(settled.opuk.value)>> ELSE <<>>
        prime == primeSourceOf(settled.primevids.value)
        asia == buildAsiacloudHindiFallback(settled.asiacloud.value)
        sourcesOf(built) == IF built = NoSource THEN <<>> ELSE <<built>>
    IN  IF prime = Threw \/ asia = Threw THEN SecondarySources(TRUE, <<>>)
        ELSE SecondarySources(FALSE,
                              opuk \o sourcesOf(prime) \o sourcesOf(asia))

RECURSIVE dedupeSourcesFrom(_, _)
dedupeSourcesFrom(sources, seen) ==
    IF sources = <<>> THEN <<>>
    ELSE IF Head(sources).file \in seen
         THEN dedupeSourcesFrom(Tail(sources), seen)
         ELSE <<Head(sources)>>
                  \o dedupeSourcesFrom(Tail(sources),
                                       seen \cup {Head(sources).file})

dedupeSources(sources) == dedupeSourcesFrom(sources, {})

GetResponse(status, sources) == [status |-> status, sources |-> sources]

\* The rest of GET once vixsrc and the secondary providers have settled.
respondGET(vixsrcSource, settled) ==
    LET secondary == getSecondarySources(settled)
        secondarySources == secondary.sources
        isOpuk(source) == source.provider = CITY_SERVER_PROVIDERS.opuk
        notOpuk(source) == ~isOpuk(source)
        opukSources == SelectSeq(secondarySources, isOpuk)
        opukSource == IF opukSources = <<>> THEN <<>>
                      ELSE <<Head(opukSources)>>
        remainingSecondary == SelectSeq(secondarySources, notOpuk)
        vixsrc == IF vixsrcSource = NoSource THEN <<>> ELSE <<vixsrcSource>>
        deduped ==
            dedupeSources(opukSource \o vixsrc \o remainingSecondary)
        orderedSources ==
            [i \in 1..Len(deduped) |->
                [type |-> deduped[i].type, file |-> deduped[i].file,
                 provider |-> deduped[i].provider, default |-> i = 1]]
    IN  IF secondary.threw THEN GetResponse(500, <<>>)
        ELSE IF orderedSources = <<>> THEN GetResponse(502, <<>>)
        ELSE GetResponse(200, orderedSources)

\* pickHlsSources of the player on the payload of a 200 response.
StreamSourceOption(file, provider, isDefault) ==
    [file |-> file, provider |-> provider, isDefault |-> isDefault]

pickHlsSources(payloadSources) ==
    LET isHls(source) == source.type = "hls"
        collected == SelectSeq(payloadSources, isHls)
    IN  dedupeSources([i \in 1..Len(collected) |->
                          StreamSourceOption(collected[i].file,
                                             collected[i].provider,
                                             collected[i].default)])

\* fetchOpukSource of the player: the header names are in lower case.
fetchOpukSource(outcome) ==
    IF outcome = "secureUrl"
    THEN StreamSourceOption(
             buildWorkerM3u8ProxyUrl("opuk", {"origin", "referer",
                                              "user-agent"}),
             OPUK_CITY_PROVIDER, TRUE)
    ELSE NoSource

\* mergedSources.findIndex((source) => source.isDefault), from 0, -1 if none.
findIndexDefault(sources) ==
    IF \E i \in 1..Len(sources) : sources[i].isDefault
    THEN (CHOOSE i \in 1..Len(sources) :
              /\ sources[i].isDefault
              /\ \A j \in 1..(i - 1) : ~sources[j].isDefault) - 1
    ELSE -1

\* The state of a promise handed to Promise.allSettled.
Unsettled == [unsettled |-> TRUE]
Fulfilled(value) == [value |-> value]

Aggregation(pc) ==
    [pc |-> pc, vixsrcSource |-> NoSource,
     settled |-> [opuk |-> Unsettled, primevids |-> Unsettled,
                  asiacloud |-> Unsettled],
     response |-> GetResponse(0, <<>>), parsedSources |-> <<>>,
     availableSources |-> <<>>, activeSourceIndex |-> 0, error |-> FALSE]

AggregationIdle == aggregation = Aggregation("idle")

AggregationInit == aggregation = Aggregation("vixsrc")

\* The request for the page of vixsrc settles.
VixsrcSettles ==
    /\ aggregation.pc = "vixsrc"
    /\ \E outcome \in VixsrcOutcomes :
           aggregation' = [aggregation EXCEPT
                              !.pc = "secondary",
                              !.vixsrcSource = vixsrcSourceOf(outcome)]
    /\ UNCHANGED <<playerVars, resolverVars, tokenVars, playlistVars,
                   parserVars, adRequestVars>>

\* The promises of Promise.allSettled settle, in any order.
OpukSettles ==
    /\ aggregation.pc = "secondary"
    /\ aggregation.settled.opuk = Unsettled
    /\ \E outcome \in OpukOutcomes :
           aggregation' = [aggregation EXCEPT
                              !.settled.opuk =
                                  Fulfilled(fetchOpukSecureUrl(outcome))]
    /\ UNCHANGED <<playerVars, resolverVars, tokenVars, playlistVars,
                   parserVars, adRequestVars>>

PrimeSettles ==
    /\ aggregation.pc = "secondary"
    /\ aggregation.settled.primevids = Unsettled
    /\ \E outcome \in CinemaOutcomes(PrimeElements) :
           aggregation' =
               [aggregation EXCEPT
                   !.settled.primevids =
                       Fulfilled(fetchCinemaProviderSources(outcome))]
    /\ UNCHANGED <<playerVars, resolverVars, tokenVars, playlistVars,
                   parserVars, adRequestVars>>

AsiaSettles ==
    /\ aggregation.pc = "secondary"
    /\ aggregation.settled.asiacloud = Unsettled
    /\ \E outcome \in CinemaOutcomes(AsiaElements) :
           aggregation' =
               [aggregation EXCEPT
                   !.settled.asiacloud =
                       Fulfilled(fetchCinemaProviderSources(outcome))]
    /\ UNCHANGED <<playerVars, resolverVars, tokenVars, playlistVars,
                   parserVars, adRequestVars>>

\* All of them have settled: GET builds its response.
GetResponds ==
    /\ aggregation.pc = "secondary"
    /\ \A p \in DOMAIN aggregation.settled :
           aggregation.settled[p] # Unsettled
    /\ aggregation' =
           [aggregation EXCEPT
               !.pc = "responded",
               !.response = respondGET(aggregation.vixsrcSource,
                                       aggregation.settled)]
    /\ UNCHANGED <<playerVars, resolverVars, tokenVars, playlistVars,
                   parserVars, adRequestVars>>

\* The sources are adopted: setAvailableSources and setActiveSourceIndex.
adoptSources(a, mergedSources) ==
    IF mergedSources = <<>>
    THEN [a EXCEPT !.pc = "failed", !.error = TRUE]
    ELSE LET defaultIndex == findIndexDefault(mergedSources)
         IN  [a EXCEPT
                 !.pc = "adopted",
                 !.availableSources = mergedSources,
                 !.activeSourceIndex =
                     IF defaultIndex >= 0 THEN defaultIndex ELSE 0]

\* loadPlaylist receives the response: a non-OK one is a fatal error; with
\* a source of OPUK_CITY_PROVIDER in it the list is adopted, otherwise
\* fetchOpukSource is awaited.
PlaylistLoaded ==
    /\ aggregation.pc = "responded"
    /\ LET parsedSources == pickHlsSources(aggregation.response.sources)
           hasOpuk == \E i \in 1..Len(parsedSources) :
                          parsedSources[i].provider = OPUK_CITY_PROVIDER
           parsed == [aggregation EXCEPT !.parsedSources = parsedSources]
       IN  aggregation' =
               IF aggregation.response.status # 200
               THEN [aggregation EXCEPT !.pc = "failed", !.error = TRUE]
               ELSE IF hasOpuk THEN adoptSources(parsed, parsedSources)
               ELSE [parsed EXCEPT !.pc = "opuk"]
    /\ UNCHANGED <<playerVars, resolverVars, tokenVars, playlistVars,
                   parserVars, adRequestVars>>

\* fetchOpukSource settles and the merged list is adopted.
ClientOpukSettles ==
    /\ aggregation.pc = "opuk"
    /\ \E outcome \in OpukOutcomes :
           LET opukSource == fetchOpukSource(outcome)
               mergedSources ==
                   IF opukSource # NoSource
                   THEN <<opukSource>> \o aggregation.parsedSources
                   ELSE aggregation.parsedSources
           IN  aggregation' = adoptSources(aggregation, mergedSources)
    /\ UNCHANGED <<playerVars, resolverVars, tokenVars, playlistVars,
                   parserVars, adRequestVars>>

AggregationNext ==
    \/ VixsrcSettles
    \/ OpukSettles
    \/ PrimeSettles
    \/ AsiaSettles
    \/ GetResponds
    \/ PlaylistLoaded
    \/ ClientOpukSettles

(***************************************************************************)
(* References and URLs of the secure playlist proxy.  A reference is        *)
(* absolute ("abs": host, directory, file), relative to the root of the     *)
(* host ("root": directory, file), relative to the directory of its base    *)
(* ("rel": file), a bare fragment ("text"), or unparsable ("bad").  A proxy *)
(* URL carries its token.                                                  *)
(***************************************************************************)
Value(kind, host, dir, file, frag, token) ==
    [kind |-> kind, host |-> host, dir |-> dir, file |-> file, frag |-> frag,
     token |-> token]

Reference(kind, host, dir, file) == Value(kind, host, dir, file, "", <<>>)

EmptyValue == Reference("text", "", "", "")

(***************************************************************************)
(* The proxy token service: createPlayerProxyToken, decodePlayerProxyToken. *)
(*                                                                         *)
(* Times are counted in half seconds, so that Date.now() / 1000 and an      *)
(* expiry may fall between two seconds.  Encryption is symbolic: a          *)
(* ciphertext names its key, IV and plain text, and deciphering succeeds    *)
(* with that key, that IV and the tag made with them, and throws otherwise. *)
(***************************************************************************)
TOKEN_VERSION == "v1"
DEFAULT_PROXY_TOKEN_TTL_SECONDS == 60 * 60 * 6

\* Bounds: the last dateNow reading and the latest expiry asked for, in half
\* seconds; the number of IVs; the count of decodes kept.
MaxClock == 6
MaxExpiry == 8
NumIVs == 2
MaxDecodes == 3

IVs == 1..NumIVs

\* process.env.PLAYER_PROXY_TOKEN_SECRET: unset, blank, set, set with
\* white space around.
SecretEnvValues == {"", " ", "k1", " k1 "}

NoSecret == ""

\* process.env.PLAYER_PROXY_TOKEN_SECRET?.trim(), null when empty.
getSecret(env) ==
    CASE env = " k1 " -> "k1"
      [] env = " " -> NoSecret
      [] OTHER -> env

NoKey == [sha256 |-> NoSecret]

getKey(env) ==
    IF getSecret(env) = NoSecret THEN NoKey ELSE [sha256 |-> getSecret(env)]

isPlayerProxyTokenEnabled(env) == getSecret(env) # NoSecret

toBase64Url(value) == [base64url |-> value]

fromBase64Url(value) == value.base64url

jsonStringify(payload) == [json |-> payload]

jsonParse(text) == text.json

\* createCipheriv(...).update(...), .final() and .getAuthTag()
encrypted(key, iv, plaintext) == [key |-> key, iv |-> iv, plaintext |-> plaintext]

authTagOf(key, iv, plaintext) == [tagged |-> <<key, iv, plaintext>>]

\* setAuthTag(...), update(...), final(): final() throws unless the tag is
\* the one made with this key and IV for this ciphertext.
deciphers(key, iv, authTag, ciphertext) ==
    /\ ciphertext.key = key
    /\ ciphertext.iv = iv
    /\ authTag = authTagOf(key, iv, ciphertext.plaintext)

\* Math.floor of a number of seconds given in half seconds.
floorSeconds(halves) == halves \div 2

\* The expiry asked for is left aside.
defaultTokenExpiry(expiresAt, dateNow) ==
    floorSeconds(dateNow) + DEFAULT_PROXY_TOKEN_TTL_SECONDS

\* The exp of the payload: the floor of the expiry asked for, else now + TTL.
tokenExpiry(expiresAt, dateNow) ==
    IF expiresAt # Null THEN floorSeconds(expiresAt)
    ELSE floorSeconds(dateNow) + DEFAULT_PROXY_TOKEN_TTL_SECONDS

NoToken == <<>>

createPlayerProxyToken(env, dateNow, iv, target, expiresAt) ==
    LET key == getKey(env)
        payload == [target |-> target, exp |-> tokenExpiry(expiresAt, dateNow)]
        plaintext == jsonStringify(payload)
    IN  IF key = NoKey THEN NoToken
        ELSE <<TOKEN_VERSION,
               toBase64Url(iv),
               toBase64Url(authTagOf(key, iv, plaintext)),
               toBase64Url(encrypted(key, iv, plaintext))>>

NoPayload == [null |-> TRUE]

\* An expiry that the dateNow has only just reached still counts.
tokenExpiredStrictly(exp, now) == exp < now

tokenExpired(exp, now) == exp <= now

decodePlayerProxyToken(env, dateNow, token) ==
    LET key == getKey(env)
        iv == fromBase64Url(token[2])
        authTag == fromBase64Url(token[3])
        ciphertext == fromBase64Url(token[4])
        payload == jsonParse(ciphertext.plaintext)
        now == floorSeconds(dateNow)
    IN  IF key = NoKey \/ token = NoToken THEN NoPayload
        ELSE IF Len(token) # 4 THEN NoPayload
        ELSE IF token[1] # TOKEN_VERSION THEN NoPayload
        ELSE IF ~deciphers(key, iv, authTag, ciphertext) THEN NoPayload
        ELSE IF payload.target = EmptyValue THEN NoPayload
        ELSE IF tokenExpired(payload.exp, now) THEN NoPayload
        ELSE [target |-> payload.target, exp |-> payload.exp]

(***************************************************************************)
(* The token service at work: one token is minted, it and forgeries of it   *)
(* are decoded, time passes.                                               *)
(***************************************************************************)
ManifestUrl == Reference("abs", "cdn.example", "/live/", "index.m3u8")

Targets == {EmptyValue, ManifestUrl}

ExpiryInputs == {Null} \cup 0..MaxExpiry

NoMint == [token |-> NoToken, target |-> EmptyValue, expiresAt |-> Null, made |-> FALSE]

NoDecode == [token |-> NoToken, result |-> NoPayload, made |-> FALSE]

AttackerKey == [sha256 |-> "guess"]

\* Tokens an attacker can build from a token it has seen.
Forgeries(token) ==
    LET forged(target, exp) ==
            <<TOKEN_VERSION, toBase64Url(1),
              toBase64Url(authTagOf(AttackerKey, 1,
                  jsonStringify([target |-> target, exp |-> exp]))),
              toBase64Url(encrypted(AttackerKey, 1,
                  jsonStringify([target |-> target, exp |-> exp])))>>
    IN  { forged(Reference("abs", "evil.example", "/", "x"), MaxExpiry) }
        \cup
        IF token = NoToken THEN {}
        ELSE LET ciphertext == fromBase64Url(token[4])
                 payload == jsonParse(ciphertext.plaintext)
                 later == [payload EXCEPT !.exp = payload.exp + MaxExpiry]
             IN  { \* another version, a part missing, a longer life
                   [token EXCEPT ![1] = "v2"],
                   SubSeq(token, 1, 3),
                   [token EXCEPT ![4] = toBase64Url(
                        [ciphertext EXCEPT !.plaintext = jsonStringify(later)])] }

TokenIdle ==
    /\ proxySecretEnv = ""
    /\ clock = 0
    /\ minted = NoMint
    /\ lastDecode = NoDecode
    /\ decodes = 0
    /\ expiredSeen = FALSE

TokenInit ==
    /\ proxySecretEnv \in SecretEnvValues
    /\ clock = 0
    /\ minted = NoMint
    /\ lastDecode = NoDecode
    /\ decodes = 0
    /\ expiredSeen = FALSE

\* The exp inside a token made by createPlayerProxyToken.
EmbeddedExpiry(token) == jsonParse(fromBase64Url(token[4]).plaintext).exp

\* A caller mints a token.
CreateToken ==
    /\ ~minted.made
    /\ \E target \in Targets, expiresAt \in ExpiryInputs, iv \in IVs :
           minted' = [token |-> createPlayerProxyToken(proxySecretEnv, clock, iv,
                                                       target, expiresAt),
                      target |-> target, expiresAt |-> expiresAt, made |-> TRUE]
    /\ lastDecode' = NoDecode
    /\ UNCHANGED <<proxySecretEnv, clock, decodes, expiredSeen>>
    /\ UNCHANGED <<playerVars, resolverVars, playlistVars, parserVars, adRequestVars,
                   aggregationVars>>

\* A token is presented: the minted one, or a forgery.
DecodeToken ==
    /\ \E token \in {minted.token} \cup Forgeries(minted.token) :
           LET result == decodePlayerProxyToken(proxySecretEnv, clock, token)
               ofMinted == minted.made /\ token = minted.token
           IN  /\ lastDecode' = [token |-> token, result |-> result,
                                 made |-> TRUE]
               /\ decodes' = IF ofMinted /\ result # NoPayload
                                /\ decodes < MaxDecodes
                             THEN decodes + 1 ELSE decodes
               /\ expiredSeen' =
                      \/ expiredSeen
                      \/ /\ ofMinted
                         /\ token # NoToken
                         /\ result = NoPayload
                         /\ clock >= 2 * EmbeddedExpiry(token)
    /\ UNCHANGED <<proxySecretEnv, clock, minted>>
    /\ UNCHANGED <<playerVars, resolverVars, playlistVars, parserVars, adRequestVars,
                   aggregationVars>>

\* Half a second passes.
ClockTick ==
    /\ clock < MaxClock
    /\ clock' = clock + 1
    /\ lastDecode' = NoDecode
    /\ UNCHANGED <<proxySecretEnv, minted, decodes, expiredSeen>>
    /\ UNCHANGED <<playerVars, resolverVars, playlistVars, parserVars, adRequestVars,
                   aggregationVars>>

TokenNext == CreateToken \/ DecodeToken \/ ClockTick

(***************************************************************************)
(* The secure playlist proxy: toSecureProxyUrl, rewritePlaylistBody, GET.   *)
(*                                                                         *)
(* A playlist body is a string of pieces: a line break, white space, the    *)
(* text of a tag (it begins with '#'), a URI="..." attribute with its       *)
(* value, or the text of a reference.                                      *)
(***************************************************************************)
\* Bounds: the lines of a manifest, and the number of request origins.
MaxLines == 3

Piece(t, value) == [t |-> t, value |-> value]

LineBreak == Piece("nl", EmptyValue)
WhiteSpace == Piece("space", EmptyValue)
Tag(text) == Piece("tag", Reference("text", "", "", text))
UriAttribute(value) == Piece("uri", value)
ReferenceText(value) == Piece("ref", value)

RequestOrigin == "https://site.example"

\* The base of new URL(value) when none is given.
NoBase == Value("undefined", "", "", "", "", <<>>)

\* asAbsoluteUrl with the value left as it is.
leaveUnresolved(value, base) == value

\* asAbsoluteUrl: new URL(value, base).toString(), or the value when the
\* URL constructor throws.
asAbsoluteUrl(value, base) ==
    CASE value.kind = "abs" -> value
      [] base = NoBase -> value
      [] value.kind = "root" -> Reference("abs", base.host, value.dir, value.file)
      [] value.kind = "rel" -> Reference("abs", base.host, base.dir, value.file)
      [] value.kind = "text" ->
             Value("abs", base.host, base.dir, base.file, value.file, <<>>)
      [] OTHER -> value

NoUrl == Value("null", "", "", "", "", <<>>)

\* toSecureProxyUrl with the expiry left to createPlayerProxyToken.
toSecureProxyUrlDefaultExpiry(env, dateNow, iv, targetUrl, expiresAtUnixSeconds) ==
    LET token == createPlayerProxyToken(env, dateNow, iv, targetUrl, Null)
    IN  IF token = NoToken THEN NoUrl
        ELSE Value("proxy", RequestOrigin, "/api/player/", "secure-proxy", "",
                   token)

\* toSecureProxyUrl: /api/player/secure-proxy?token=... on the origin of the
\* request.  The expiry is in seconds.
toSecureProxyUrl(env, dateNow, iv, targetUrl, expiresAtUnixSeconds) ==
    LET token == createPlayerProxyToken(env, dateNow, iv, targetUrl,
                                        2 * expiresAtUnixSeconds)
    IN  IF token = NoToken THEN NoUrl
        ELSE Value("proxy", RequestOrigin, "/api/player/", "secure-proxy", "",
                   token)

rewriteTarget(env, dateNow, iv, raw, playlistUrl, expiresAtUnixSeconds) ==
    toSecureProxyUrl(env, dateNow, iv, asAbsoluteUrl(raw, playlistUrl),
                     expiresAtUnixSeconds)

\* playlistBody.split("\n")
RECURSIVE split(_)
split(body) ==
    LET breaks == { i \in 1..Len(body) : body[i] = LineBreak }
        first == CHOOSE i \in breaks : \A j \in breaks : i <= j
    IN  IF breaks = {} THEN <<body>>
        ELSE <<SubSeq(body, 1, first - 1)>>
             \o split(SubSeq(body, first + 1, Len(body)))

\* lines.join("\n")
RECURSIVE join(_)
join(lines) ==
    IF Len(lines) = 0 THEN <<>>
    ELSE IF Len(lines) = 1 THEN lines[1]
    ELSE lines[1] \o <<LineBreak>> \o join(Tail(lines))

\* line.trim()
RECURSIVE trimLine(_)
trimLine(line) ==
    IF line = <<>> THEN line
    ELSE IF Head(line) = WhiteSpace THEN trimLine(Tail(line))
    ELSE IF line[Len(line)] = WhiteSpace
         THEN trimLine(SubSeq(line, 1, Len(line) - 1))
    ELSE line

\* The IV drawn for the i-th piece of a line whose first draw is iv.
ivFor(iv, i) == ((iv + i) % NumIVs) + 1

\* The callback of playlistBody.split("\n").map(...).
rewriteLine(env, dateNow, iv, line, playlistUrl, expiresAtUnixSeconds) ==
    LET rewrittenUri(i) ==
            rewriteTarget(env, dateNow, ivFor(iv, i), line[i].value, playlistUrl,
                          expiresAtUnixSeconds)
        trimmed == trimLine(line)
        rewritten == rewriteTarget(env, dateNow, iv, trimmed[1].value,
                                   playlistUrl, expiresAtUnixSeconds)
    IN  IF line # <<>> /\ line[1].t = "tag"
        THEN IF \E i \in 1..Len(line) : line[i].t = "uri"
             THEN [i \in 1..Len(line) |->
                      IF line[i].t = "uri" /\ line[i].value # EmptyValue
                         /\ rewrittenUri(i) # NoUrl
                      THEN UriAttribute(rewrittenUri(i))
                      ELSE line[i]]
             ELSE line
        ELSE IF trimmed = <<>> THEN line
        ELSE IF rewritten # NoUrl THEN <<ReferenceText(rewritten)>>
        ELSE line

rewritePlaylistBody(env, dateNow, ivs, playlistBody, playlistUrl, expiresAtUnixSeconds) ==
    LET lines == split(playlistBody)
    IN  join([k \in 1..Len(lines) |->
                 rewriteLine(env, dateNow, ivs[k], lines[k], playlistUrl,
                             expiresAtUnixSeconds)])

\* The lines a manifest is made of.
LineKinds ==
    { <<>>,
      <<WhiteSpace>>,
      <<Tag("#EXTM3U")>>,
      <<Tag("#EXT-X-KEY:METHOD=AES-128,"),
        UriAttribute(Reference("root", "", "/keys/", "k1.key")),
        UriAttribute(EmptyValue),
        UriAttribute(Reference("rel", "", "", "k2.key"))>>,
      <<ReferenceText(Reference("rel", "", "", "seg1.ts"))>>,
      <<WhiteSpace,
        ReferenceText(Reference("abs", "edge.example", "/v/", "seg2.ts")),
        WhiteSpace>>,
      <<WhiteSpace, Tag("#EXT-X-ENDLIST")>>,
      <<ReferenceText(Reference("bad", "", "", "http://"))>> }

RECURSIVE LinesUpTo(_)
LinesUpTo(n) ==
    IF n = 0 THEN {<<>>}
    ELSE LinesUpTo(n - 1)
         \cup { Append(lines, line) :
                  lines \in { l \in LinesUpTo(n - 1) : Len(l) = n - 1 },
                  line \in LineKinds }

Manifests == { join(lines) : lines \in LinesUpTo(MaxLines) \ {<<>>} }

RedirectedUrl == Reference("abs", "edge.example", "/hls/", "play")

\* What the upstream may answer with: a manifest under its own URL, the
\* same after a redirect, or a segment.
Upstreams ==
    { [url |-> url, contentType |-> "application/vnd.apple.mpegurl",
       body |-> body] : url \in {ManifestUrl, RedirectedUrl},
                        body \in Manifests }
    \cup
    { [url |-> Reference("abs", "edge.example", "/v/", "seg2.ts"),
       contentType |-> "video/mp2t", body |-> <<WhiteSpace>>] }

\* /\.m3u8($|\?)/i on the URL, or a playlist content type.
isPlaylistLike(url, contentType) ==
    \/ url.file = "index.m3u8"
    \/ contentType \in {"application/vnd.apple.mpegurl",
                        "application/x-mpegurl"}

Response(status, kind) ==
    [status |-> status, kind |-> kind, body |-> <<>>, manifest |-> <<>>,
     url |-> EmptyValue, exp |-> Null]

NoResponse == Response(0, "none")

PlaylistIdle ==
    /\ proxyPending = NoPayload
    /\ proxyResponse = NoResponse
    /\ proxyRequest = NoToken
    /\ proxyHops = 0

\* new URL(targetUrl) does not throw.
parsesAsUrl(targetUrl) == targetUrl.kind \in {"abs", "ftp"}

\* Every protocol taken for https.
anyProtocol(targetUrl) == "https:"

\* new URL(targetUrl).protocol
protocolOf(targetUrl) == IF targetUrl.kind = "abs" THEN "https:" ELSE "ftp:"

\* GET up to the upstream fetch: the error it answers with, or the payload
\* whose target it goes on to fetch.
getUntilFetch(env, dateNow, token) ==
    LET payload == decodePlayerProxyToken(env, dateNow, token)
        targetUrl == asAbsoluteUrl(payload.target, NoBase)
        answers(status) == [response |-> Response(status, "error"),
                            fetch |-> NoPayload]
    IN  IF ~isPlayerProxyTokenEnabled(env) THEN answers(503)
        ELSE IF token = NoToken THEN answers(400)
        ELSE IF payload = NoPayload THEN answers(403)
        ELSE IF ~parsesAsUrl(targetUrl) THEN answers(400)
        ELSE IF protocolOf(targetUrl) \notin {"http:", "https:"}
        THEN answers(400)
        ELSE [response |-> NoResponse, fetch |-> payload]

\* A request with one of the tokens arrives and is served up to the fetch.
Requested(tokens) ==
    /\ \E token \in tokens :
           LET get == getUntilFetch(proxySecretEnv, clock, token)
           IN  /\ proxyRequest' = token
               /\ proxyResponse' = get.response
               /\ proxyPending' = get.fetch
    /\ proxyHops' = proxyHops + 1
    /\ UNCHANGED <<tokenVars, playerVars, resolverVars, parserVars, adRequestVars,
                   aggregationVars>>

\* GET up to the upstream fetch.
ProxyGet ==
    /\ proxyPending = NoPayload
    /\ proxyResponse = NoResponse
    /\ Requested({minted.token} \cup Forgeries(minted.token))

\* fetch(targetUrl) rejects.
UpstreamFails ==
    /\ proxyPending # NoPayload
    /\ proxyResponse = NoResponse
    /\ proxyResponse' = Response(502, "error")
    /\ UNCHANGED <<proxyPending, proxyRequest, proxyHops>>
    /\ UNCHANGED <<tokenVars, playerVars, resolverVars, parserVars, adRequestVars,
                   aggregationVars>>

\* GET from the upstream response on, the upstream answering with one of
\* the given responses.
Answered(upstreams) ==
    /\ proxyPending # NoPayload
    /\ proxyResponse = NoResponse
    /\ \E upstream \in upstreams, ivs \in [1..MaxLines -> IVs] :
           LET rewrittenPlaylist ==
                   rewritePlaylistBody(proxySecretEnv, clock, ivs,
                                       upstream.body, upstream.url,
                                       proxyPending.exp)
           IN  IF ~isPlaylistLike(upstream.url, upstream.contentType)
               THEN proxyResponse' =
                        [Response(200, "passthrough") EXCEPT
                           !.body = upstream.body]
               ELSE IF rewrittenPlaylist = <<>>
               THEN proxyResponse' = Response(500, "error")
               ELSE proxyResponse' =
                        [Response(200, "manifest") EXCEPT
                           !.body = rewrittenPlaylist,
                           !.manifest = upstream.body,
                           !.url = upstream.url,
                           !.exp = proxyPending.exp]
    /\ UNCHANGED <<proxyPending, proxyRequest, proxyHops>>
    /\ UNCHANGED <<tokenVars, playerVars, resolverVars, parserVars, adRequestVars,
                   aggregationVars>>

UpstreamResponds == Answered(Upstreams)

\* A token for the manifest has been handed out before; the proxy serves one
\* request for it.
PlaylistInit ==
    /\ proxySecretEnv \in {"", "k1"}
    /\ clock = 0
    /\ \E expiresAt \in {2, MaxExpiry - 2} :
           minted = [token |-> createPlayerProxyToken(proxySecretEnv, 0, 1,
                                                      ManifestUrl, expiresAt),
                     target |-> ManifestUrl, expiresAt |-> expiresAt,
                     made |-> TRUE]
    /\ lastDecode = NoDecode
    /\ decodes = 0
    /\ expiredSeen = FALSE
    /\ PlaylistIdle

PlaylistNext == ProxyGet \/ UpstreamFails \/ UpstreamResponds \/ ClockTick

(***************************************************************************)
(* A client that follows the references of the manifests it is served: the *)
(* root manifest, a manifest it refers to, a segment of that one.           *)
(***************************************************************************)
\* Bound: the requests of one chain.
MaxHops == 3

MasterManifest ==
    join(<< <<Tag("#EXTM3U")>>,
            <<ReferenceText(Reference("rel", "", "", "low.m3u8"))>>,
            <<ReferenceText(Reference("ftp", "files.example", "/", "a.ts"))>> >>)

MediaManifest ==
    join(<< <<Tag("#EXT-X-KEY:METHOD=AES-128,"),
              UriAttribute(Reference("root", "", "/keys/", "k1.key"))>>,
            <<ReferenceText(Reference("abs", "edge.example", "/v/", "seg2.ts"))>>,
            <<ReferenceText(Reference("bad", "", "", "http://"))>> >>)

\* What the upstream answers along a chain.
ChainUpstreams ==
    { [url |-> ManifestUrl, contentType |-> "application/vnd.apple.mpegurl",
       body |-> MasterManifest],
      [url |-> Reference("abs", "cdn.example", "/live/", "low.m3u8"),
       contentType |-> "application/x-mpegurl", body |-> MediaManifest],
      [url |-> Reference("abs", "edge.example", "/v/", "seg2.ts"),
       contentType |-> "video/mp2t", body |-> <<WhiteSpace>>] }

\* The secure-proxy URLs of a body.
ProxyUrlsOf(body) ==
    { body[i].value : i \in { j \in 1..Len(body) : body[j].value.kind = "proxy" } }

\* The client's first request: with the token it was handed, with a forgery
\* of it, or with none.
ChainGet ==
    /\ proxyHops = 0
    /\ Requested({minted.token, NoToken} \cup Forgeries(minted.token))

\* The client requests one of the URLs of the manifest it was served.
FollowReference ==
    /\ proxyResponse.kind = "manifest"
    /\ proxyHops < MaxHops
    /\ Requested({ url.token : url \in ProxyUrlsOf(proxyResponse.body) })

ChainResponds == Answered(ChainUpstreams)

ChainNext ==
    ChainGet \/ FollowReference \/ UpstreamFails \/ ChainResponds \/ ClockTick

(***************************************************************************)
(* The parser's functions applied to one document.                         *)
(***************************************************************************)
NoDocument == [none |-> TRUE]

NotParsed == [fn |-> "none"]

ParserIdle ==
    /\ vastXml = NoDocument
    /\ vastParsed = NotParsed

\* Bound: the <MediaFile> elements of a document.
MaxCandidates == 2

MediaTypes == {"", "video/mp4", "VIDEO/MP4", "application/x-mpegurl"}

MediaValues ==
    { Plain("", Path("ad.mp4", 0)), EmptyString }
    \cup { Plain("cdn.example", Path(name, 0)) :
             name \in {"master.m3u8", "ad.mp4/master.m3u8", "media"} }

\* The <MediaFile> elements a document may hold.
MediaElements ==
    { MediaFile(value, type, rates[1], rates[2], size[1], size[2]) :
        value \in MediaValues, type \in MediaTypes,
        rates \in {<<Undefined, Undefined>>, <<1000, Undefined>>,
                   <<3000, Undefined>>, <<Undefined, 500>>},
        size \in {<<Undefined, Undefined>>, <<640, 360>>} }

RECURSIVE ElementLists(_)
ElementLists(n) ==
    IF n = 0 THEN {<<>>}
    ELSE ElementLists(n - 1)
         \cup { Append(list, element) :
                  list \in { l \in ElementLists(n - 1) : Len(l) = n - 1 },
                  element \in MediaElements }

RankerInit ==
    /\ vastXml \in
           { [MediaFile |-> list, directMatch |-> direct] :
               list \in ElementLists(MaxCandidates),
               direct \in {EmptyString, Url("cdn.example", Path("bare.mp4", 0))} }
    /\ vastParsed = NotParsed

\* pickBestMediaUrl(xml, baseUrl) is called.
PickBestMediaUrl ==
    /\ vastParsed = NotParsed
    /\ vastParsed' = [fn |-> "pickBestMediaUrl",
                      value |-> pickBestMediaUrl(vastXml, DocUrl(0))]
    /\ UNCHANGED <<vastXml, playerVars, resolverVars, tokenVars, playlistVars,
                   adRequestVars,
                   aggregationVars>>

(***************************************************************************)
(* Durations and skip offsets: parseClockSeconds, parseSkipOffsetSeconds,   *)
(* extractSkipOffsetSeconds.                                               *)
(*                                                                         *)
(* A number of seconds is counted in hundred-thousandths of a second, so    *)
(* that a percentage of a duration with milliseconds is a whole number.     *)
(* The text of an attribute or of a <Duration> is a clock value, a          *)
(* percentage or a plain text, with white space around it or not.           *)
(***************************************************************************)
\* The text of a number: digits (with a sign), nothing, Infinity, or
\* something that is no number.
Digits(n) == [text |-> "digits", n |-> n]
NoDigits == [text |-> "", n |-> 0]
InfinityText == [text |-> "Infinity", n |-> 0]
Letters == [text |-> "abc", n |-> 0]

NoClock == <<0, 0, 0, 0, 0>>

\* hours:minutes:seconds, and the fraction as its number of digits and
\* their value.
ClockText(h, m, s, digits, fraction, pad) ==
    [form |-> "clock", num |-> NoDigits, clock |-> <<h, m, s, digits, fraction>>,
     cdata |-> FALSE, pad |-> pad]

PercentText(num, pad) ==
    [form |-> "percent", num |-> num, clock |-> NoClock, cdata |-> FALSE,
     pad |-> pad]

PlainText(num, pad) ==
    [form |-> "plain", num |-> num, clock |-> NoClock, cdata |-> FALSE,
     pad |-> pad]

\* White space only.
BlankText == Text("", Path("", 0), FALSE, TRUE)

\* No such attribute, no such element.
NoText == [form |-> "undefined"]

NotANumber == [finite |-> FALSE, n |-> 0]

\* Number(text): an empty text is 0.
Number(num) ==
    IF num.text \in {"digits", ""} THEN [finite |-> TRUE, n |-> num.n]
    ELSE NotANumber

\* match[4].padEnd(3, "0")
padEnd(digits, fraction) ==
    CASE digits = 1 -> fraction * 100
      [] digits = 2 -> fraction * 10
      [] OTHER -> fraction

\* parseClockSeconds; parseDurationSeconds is the same function.
parseClockSeconds(value) ==
    LET normalized == sanitizeXmlValue(value)
        hours == normalized.clock[1]
        minutes == normalized.clock[2]
        seconds == normalized.clock[3]
        millis == IF normalized.clock[4] > 0
                  THEN padEnd(normalized.clock[4], normalized.clock[5]) ELSE 0
    IN  IF value = NoText THEN Undefined
        ELSE IF normalized = EmptyString THEN Undefined
        ELSE IF normalized.form # "clock" THEN Undefined
        ELSE (hours * 3600 + minutes * 60 + seconds) * 100000 + millis * 100

parseDurationSeconds(value) == parseClockSeconds(value)

\* parseSkipOffsetSeconds with a percentage taken of whatever duration it is
\* given, 0 when there is none.
percentOfAnyDuration(value, durationSeconds) ==
    LET normalized == sanitizeXmlValue(value)
        percent == Number(normalized.num)
    IN  IF normalized = EmptyString THEN Undefined
        ELSE IF normalized.form = "percent"
        THEN IF ~percent.finite \/ percent.n < 0 \/ percent.n > 100
             THEN Undefined
             ELSE (Max(durationSeconds, 0) * percent.n) \div 100
        ELSE IF normalized.form = "clock" THEN Max(0, parseClockSeconds(normalized))
        ELSE IF Number(normalized.num).finite
             THEN Max(0, Number(normalized.num).n * 100000)
        ELSE Undefined

parseSkipOffsetSeconds(value, durationSeconds) ==
    LET normalized == sanitizeXmlValue(value)
        percent == Number(normalized.num)
        clockSeconds == parseClockSeconds(normalized)
        rawSeconds == Number(normalized.num)
    IN  IF normalized = EmptyString THEN Undefined
        ELSE IF normalized.form = "percent"
        THEN IF ~percent.finite \/ percent.n < 0 \/ percent.n > 100
             THEN Undefined
             ELSE IF durationSeconds = Undefined \/ durationSeconds <= 0
             THEN Undefined
             ELSE (durationSeconds * percent.n) \div 100
        ELSE IF clockSeconds # Undefined THEN Max(0, clockSeconds)
        ELSE IF rawSeconds.finite THEN Max(0, rawSeconds.n * 100000)
        ELSE Undefined

\* Only the first <Linear> that has a skipoffset is looked at.
skipOffsetOfFirstLinear(xml, durationSeconds) ==
    LET has(linear) == linear.skipoffset # NoText
        withOffset == SelectSeq(xml.Linear, has)
    IN  IF withOffset = <<>> THEN Undefined
        ELSE parseSkipOffsetSeconds(withOffset[1].skipoffset, durationSeconds)

\* The loop of extractSkipOffsetSeconds from the given <Linear> on.
RECURSIVE skipOffsetFrom(_, _)
skipOffsetFrom(linears, durationSeconds) ==
    LET rawSkipOffset == Head(linears).skipoffset
        skipOffsetSeconds == parseSkipOffsetSeconds(rawSkipOffset, durationSeconds)
    IN  IF linears = <<>> THEN Undefined
        ELSE IF rawSkipOffset = NoText
        THEN skipOffsetFrom(Tail(linears), durationSeconds)
        ELSE IF skipOffsetSeconds # Undefined THEN skipOffsetSeconds
        ELSE skipOffsetFrom(Tail(linears), durationSeconds)

extractSkipOffsetSeconds(xml, durationSeconds) ==
    skipOffsetFrom(xml.Linear, durationSeconds)

\* extractTagValues(xml, "Duration")[0]
firstDuration(xml) ==
    IF extractTagValues(xml, "Duration") = <<>> THEN NoText
    ELSE extractTagValues(xml, "Duration")[1]

\* Bound: the <Linear> elements of a document.
MaxLinears == 3

\* The skipoffset attributes of the <Linear> elements: none, percentages,
\* clock values, numbers of seconds, and texts that are none of these.
SkipOffsets ==
    { NoText, BlankText,
      PercentText(Digits(25), FALSE), PercentText(Digits(25), TRUE),
      PercentText(Digits(100), FALSE), PercentText(Digits(150), FALSE),
      PercentText(Digits(0 - 5), FALSE), PercentText(NoDigits, FALSE),
      PercentText(Letters, FALSE),
      ClockText(0, 0, 5, 1, 5, FALSE),
      PlainText(Digits(7), TRUE), PlainText(Digits(0 - 5), FALSE),
      PlainText(Letters, FALSE), PlainText(InfinityText, FALSE) }

RECURSIVE LinearLists(_)
LinearLists(n) ==
    IF n = 0 THEN {<<>>}
    ELSE LinearLists(n - 1)
         \cup { Append(list, [skipoffset |-> offset]) :
                  list \in { l \in LinearLists(n - 1) : Len(l) = n - 1 },
                  offset \in SkipOffsets }

\* The <Duration> elements of a document.
DurationLists ==
    { <<>>,
      <<ClockText(0, 2, 0, 0, 0, FALSE)>>,
      <<ClockText(0, 0, 0, 0, 0, FALSE)>>,
      <<ClockText(0, 0, 1, 2, 1, TRUE)>>,
      <<BlankText, ClockText(0, 2, 0, 0, 0, FALSE)>>,
      <<PlainText(Letters, FALSE), ClockText(0, 2, 0, 0, 0, FALSE)>> }

SkipOffsetInit ==
    /\ vastXml \in { [Linear |-> linears, Duration |-> durations] :
                        linears \in LinearLists(MaxLinears),
                        durations \in DurationLists }
    /\ vastParsed = NotParsed

\* parseVastXmlToAd's two lines for the duration and the skip offset.
ExtractSkipOffset ==
    /\ vastParsed = NotParsed
    /\ LET durationSeconds == parseDurationSeconds(firstDuration(vastXml))
       IN  vastParsed' =
               [fn |-> "extractSkipOffsetSeconds",
                durationSeconds |-> durationSeconds,
                value |-> extractSkipOffsetSeconds(vastXml, durationSeconds)]
    /\ UNCHANGED <<vastXml, playerVars, resolverVars, tokenVars, playlistVars,
                   adRequestVars,
                   aggregationVars>>

(***************************************************************************)
(* Specifications.                                                         *)
(***************************************************************************)
vars == <<playerVars, serviceVars>>

ServicesIdle ==
    ResolverIdle /\ TokenIdle /\ PlaylistIdle /\ ParserIdle /\ AdRequestIdle
    /\ AggregationIdle

\* A player that has been mounted and is left alone.
PlayerIdle ==
    /\ PlayerInit({[start |-> {0}, errors |-> 0, switches |-> 0, toggles |-> 0,
                    ads |-> Served(0, 0), clicks |-> 0]})
    /\ disableVastAds

AdBreakInit == PlayerInit(AdBreakScenarios) /\ ServicesIdle

AdBreakNext == PlaybackNext \/ SkipClick \/ ClickThrough \/ ToggleAds

AdBreakSpec == AdBreakInit /\ [][AdBreakNext]_vars

FailoverInit == PlayerInit(FailoverScenarios) /\ ServicesIdle

FailoverNext == PlaybackNext \/ MainError

FailoverSpec == FailoverInit /\ [][FailoverNext]_vars

\* One error event of the main player around a preroll.
ErrorInit == PlayerInit(ErrorScenarios) /\ ServicesIdle

ErrorNext ==
    \/ MainLoadedMetadata
    \/ UserPlay
    \/ MainPlay
    \/ AdFetchSettles
    \/ AdTick
    \/ AdEnded
    \/ RenderStep
    \/ MainError

ErrorSpec == ErrorInit /\ [][ErrorNext]_vars

\* The start-at seek around the preroll.
StartAtInit == PlayerInit(StartAtScenarios) /\ ServicesIdle

StartAtNext ==
    \/ MainLoadedMetadata
    \/ MainCanPlay
    \/ FallbackSeekTimer
    \/ UserPlay
    \/ MainPlay
    \/ MainTick
    \/ AdFetchSettles
    \/ AdTick
    \/ AdEnded
    \/ RenderStep

StartAtSpec == StartAtInit /\ [][StartAtNext]_vars

SwitchInit == PlayerInit(SwitchScenarios) /\ ServicesIdle

\* The sources are picked before the content has advanced.
SwitchNext ==
    \/ MainLoadedMetadata
    \/ UserPlay
    \/ MainPlay
    \/ AdFetchSettles
    \/ AdTick
    \/ AdEnded
    \/ RenderStep
    \/ ManualSwitch

SwitchSpec == SwitchInit /\ [][SwitchNext]_vars

\* One resolution of a VAST URL, by the client or by the server.  Every step
\* of a resolution that can be taken is taken: a request is answered or
\* fails within its timeout, and the rest is the resolver's own code.
ResolverSpecInit ==
    /\ ResolverInit /\ PlayerIdle /\ TokenIdle /\ PlaylistIdle /\ ParserIdle
    /\ AdRequestIdle /\ AggregationIdle

ResolverSpec ==
    ResolverSpecInit /\ [][ResolverNext]_vars /\ WF_vars(ResolverNext)

\* The token service used by its callers while time passes.
TokenSpecInit ==
    /\ TokenInit /\ PlayerIdle /\ ResolverIdle /\ PlaylistIdle /\ ParserIdle
    /\ AdRequestIdle /\ AggregationIdle

TokenSpec == TokenSpecInit /\ [][TokenNext]_vars

\* One request to the secure playlist proxy.
PlaylistSpecInit ==
    /\ PlaylistInit /\ PlayerIdle /\ ResolverIdle /\ ParserIdle
    /\ AdRequestIdle /\ AggregationIdle

PlaylistSpec == PlaylistSpecInit /\ [][PlaylistNext]_vars

\* A chain of requests to the secure playlist proxy.
ChainSpec == PlaylistSpecInit /\ [][ChainNext]_vars

\* The media file of one document is picked.
RankerSpecInit ==
    /\ RankerInit /\ PlayerIdle /\ ResolverIdle /\ TokenIdle /\ PlaylistIdle
    /\ AdRequestIdle /\ AggregationIdle

RankerSpec == RankerSpecInit /\ [][PickBestMediaUrl]_vars

\* The skip offset of one document is extracted.
SkipOffsetSpecInit ==
    /\ SkipOffsetInit /\ PlayerIdle /\ ResolverIdle /\ TokenIdle /\ PlaylistIdle
    /\ AdRequestIdle /\ AggregationIdle

SkipOffsetSpec == SkipOffsetSpecInit /\ [][ExtractSkipOffset]_vars

\* One call of fetchVastAd.
AdRequestSpecInit ==
    /\ AdRequestInit /\ PlayerIdle /\ TokenIdle /\ PlaylistIdle /\ ParserIdle
    /\ AggregationIdle

AdRequestSpec == AdRequestSpecInit /\ [][AdRequestNext]_vars

\* One request to the source aggregation endpoint, adopted by the player.
AggregationSpecInit ==
    /\ AggregationInit /\ PlayerIdle /\ ResolverIdle /\ TokenIdle
    /\ PlaylistIdle /\ ParserIdle /\ AdRequestIdle

AggregationSpec == AggregationSpecInit /\ [][AggregationNext]_vars

(***************************************************************************)
(* Properties of the ad break.                                             *)
(***************************************************************************)
\* Position of the first occurrence of an entry in a history (0 if none).
FirstIndex(seq, entry) ==
    IF \E i \in 1..Len(seq) : seq[i] = entry
    THEN CHOOSE i \in 1..Len(seq) :
             seq[i] = entry /\ \A j \in 1..(i - 1) : seq[j] # entry
    ELSE 0

Before(seq, a, b) ==
    /\ FirstIndex(seq, a) > 0
    /\ FirstIndex(seq, b) > 0
    /\ FirstIndex(seq, a) < FirstIndex(seq, b)

\* A step in which an event of the ad video finishes the break.
AdEventFinishes ==
    /\ isAdPlayingRef
    /\ ~isAdPlayingRef'
    /\ AdEnded \/ AdError \/ AdAbort \/ AdPlayRejected

\* finishAdBreak has brought the main player of state s back.
MainRestored(s) ==
    /\ s.mainTime = breakTrigger
    /\ ~s.mainPaused
    /\ Before(s.log, "seek", "resume")

\* C1: whichever way an ad break finishes (ended, error, abort, rejected
\* play(), skip), the handler that finishes it leaves the main player at
\* exactly the time recorded when the break was triggered, seeks before it
\* resumes, and leaves the main player playing; when the ad ended,
\* `complete` is dispatched before the main player is resumed.  (The skip
\* handler is looked at before the render that follows the click.)
C1_FinishRestoresMain ==
    [][/\ AdEventFinishes =>
              /\ mainTime' = breakTrigger
              /\ ~mainPaused'
              /\ Before(log', "seek", "resume")
              /\ AdEnded => Before(log', "complete", "resume")
       /\ SkipClick /\ isAdPlayingRef =>
              /\ ~skipClicked(Now).isAdPlayingRef
              /\ MainRestored(skipClicked(Now))
              /\ Before(skipClicked(Now).log, "closeLinear", "seek")]_vars

\* C1 witness: a midroll break triggered at a positive time has ended: its
\* last step dispatched complete, sought and resumed.
C1_Witness ==
    /\ ~isAdPlayingRef
    /\ activeAdRef.slot = "midroll"
    /\ breakTrigger > 0
    /\ Before(log, "complete", "seek")
    /\ Before(log, "seek", "resume")
    /\ mainTime = breakTrigger
    /\ ~mainPaused

\* C2: between startAdBreak and finishAdBreak the URL list of each tracking
\* event key is dispatched at most once, it has been dispatched exactly when
\* the key's flag is set, the flags only go from unset to set, and a step
\* that starts with a key's flag set dispatches nothing for that key.
C2_EventKeyOncePerBreak ==
    [][/\ isAdPlayingRef' =>
              \A key \in EventKeys :
                  /\ dispatched'[key] <= 1
                  /\ dispatched'[key] = 1 <=> key \in adEventFiredRef'
       /\ isAdPlayingRef /\ isAdPlayingRef' =>
              /\ adEventFiredRef \subseteq adEventFiredRef'
              /\ \A key \in EventKeys \cap adEventFiredRef :
                     dispatched'[key] = dispatched[key]]_vars

\* C2 witness: during a break the ad has delivered several timeupdates, each
\* of which calls fireAdEventTracking for start, and start went out once.
C2_Witness ==
    /\ isAdPlayingRef
    /\ adTime >= 2
    /\ "start" \in adEventFiredRef
    /\ dispatched["start"] = 1

\* C3: during one source lifetime at most one ad fetch is issued for each
\* slot.
C3_OneFetchPerSlot == \A slot \in AdSlot : fetchCount[slot] <= 1

\* C3 witness: the preroll fetch of this lifetime has settled, the main
\* player was resumed and its play event was handled, and no other fetch
\* was issued.
C3_Witness ==
    /\ fetchCount["preroll"] = 1
    /\ hasPrerollPlayedRef
    /\ ~isFetchingPrerollRef
    /\ adFetches = {}
    /\ ~mainPaused
    /\ ~playEventPending
    /\ ~isAdPlayingRef
    /\ mainTime = 0

\* C4: a midroll request is issued only by a step that finds ads enabled, no
\* ad playing and the main player at or past the midpoint of a known
\* duration; the first timeupdate of a source lifetime delivered in that
\* situation with hasMidrollPlayed false issues exactly one request, and the
\* timeupdates after it issue none.
C4_MidrollAtMidpoint ==
    [][/\ fetchCount'["midroll"] > fetchCount["midroll"] =>
              /\ ~isAdPlayingRef
              /\ ~rendered.disableVastAds
              /\ AtOrPastMidpoint(mainDuration', mainTime')
       /\ midTicks' > midTicks =>
              /\ fetchCount["midroll"] = 0
              /\ fetchCount'["midroll"] = 1
              /\ isFetchingMidrollRef'
       /\ midTicks = 1 /\ midTicks' = 1 =>
              fetchCount'["midroll"] = fetchCount["midroll"]]_vars

\* C4 witness: the midroll request is in flight and the main player, started
\* again by the viewer, has delivered a later timeupdate.
C4_Witness ==
    /\ midTicks = 1
    /\ fetchCount["midroll"] = 1
    /\ isFetchingMidrollRef
    /\ \E f \in adFetches : f.slot = "midroll" /\ f.currentTime < mainTime

C20_FatalOnlyAfterEverySourceFailed ==
    error = FatalMessage => failed = SourceIndexes

(***************************************************************************)
(* Properties of a running ad break.                                       *)
(***************************************************************************)
\* An ad break is active: isAdPlaying is set and the ad is on the page.
AdBreakActive == isAdPlayingRef /\ adVideoMounted(rendered)

\* C16: while an ad break is active the main content is paused, whatever
\* the order of play events, resolutions of ad fetches and clicks.
C16_MainPausedDuringAdBreak == AdBreakActive => mainPaused

\* A step in which the ad video notifies the registered handlers of a
\* failure: an error event, an abort event or the rejection of play().
AdFailureNotified ==
    /\ adHandlersLive(Now)
    /\ AdError \/ AdAbort \/ AdPlayRejected

\* C17: the first notification of a failure of the ad player dispatches the
\* error URLs (with the error code 405) and finishes the break; a further
\* notification for the same break neither dispatches them again nor seeks
\* or resumes the main player again.
C17_AdFailureHandledOnce ==
    [][AdFailureNotified =>
          IF isAdPlayingRef
          THEN /\ dispatched["error"] = 0
               /\ dispatched'["error"] = 1
               /\ ~isAdPlayingRef'
               /\ activeAd' = NoAd
          ELSE /\ dispatched'["error"] = dispatched["error"]
               /\ "error" \notin Range(adHandleError(Now).log)
               /\ "seek" \notin Range(adHandleError(Now).log)
               /\ "resume" \notin Range(adHandleError(Now).log)]_vars

\* A step in which the ad media delivers a timeupdate or a playing event to
\* the registered handlers.
AdMediaEventDelivered ==
    /\ adHandlersLive(Now)
    /\ AdTick \/ AdTimeUpdate \/ AdPlaying

\* The step dispatches the impression URLs or the start event.
StartBeaconDispatched ==
    \/ dispatched'["impression"] > dispatched["impression"]
    \/ dispatched'["start"] > dispatched["start"]

\* C18: within an ad break the impression URLs and the start event are
\* dispatched by the first timeupdate or playing event the ad media
\* delivers, and by no step before it.
C18_ImpressionOnFirstMediaEvent ==
    [][/\ StartBeaconDispatched => AdMediaEventDelivered
       /\ AdMediaEventDelivered /\ isAdPlayingRef =>
              /\ dispatched'["impression"] = 1
              /\ dispatched'["start"] = 1]_vars

\* C19: however many times "Visit Sponsor" is clicked during one ad break,
\* the ClickTracking URLs and the click event are dispatched at most once
\* each, and a click leaves the ad active and the resume state as it was.
C19_ClickThroughTrackedOnce ==
    [][ClickThrough =>
          /\ dispatched'["clickTracking"] <= 1
          /\ dispatched'["click"] <= 1
          /\ isAdPlayingRef' = isAdPlayingRef
          /\ activeAd' = activeAd
          /\ resumeMainAfterAdRef' = resumeMainAfterAdRef
          /\ resumeContentTimeRef' = resumeContentTimeRef]_vars

\* The progress events of a break, in their order.
ProgressEvents ==
    <<"start", "firstQuartile", "midpoint", "thirdQuartile", "complete">>

\* The step dispatches the URL list of the event.
Dispatches(event) == dispatched'[event] > dispatched[event]

\* C24: within one ad break (from startAdBreak to the step that finishes
\* it) the progress events are dispatched in the order start, firstQuartile,
\* midpoint, thirdQuartile, complete: a step never dispatches one of them
\* when a later one has been dispatched in the break, and a step that
\* dispatches two of them dispatches the earlier one first.
C24_ProgressEventsInOrder ==
    [][\A i, j \in 1..Len(ProgressEvents) :
          isAdPlayingRef /\ i < j /\ Dispatches(ProgressEvents[i]) =>
              /\ dispatched[ProgressEvents[j]] = 0
              /\ Dispatches(ProgressEvents[j]) =>
                     Before(log', ProgressEvents[i], ProgressEvents[j])]_vars

\* C24 witness: the ad has ended after timeupdates at every second, and the
\* five progress events have been dispatched once each.
C24_Witness ==
    /\ "ended" \in adSignals
    /\ adTime = AdLength
    /\ \A i \in 1..Len(ProgressEvents) : dispatched[ProgressEvents[i]] = 1
    /\ Before(log, "start", "complete") \/ log = <<"complete", "seek", "resume">>

\* C25: a skip takes effect only for an ad that has a skip offset and only
\* when the countdown max(0, ceil(skipOffsetSeconds - ad position)) is zero;
\* it dispatches skip before closeLinear and finishes the break.  An ad
\* without a skip offset is never skipped.
C25_SkipOnlyAfterCountdown ==
    [][(SkipClick \/ Dispatches("skip")) =>
          /\ SkipClick
          /\ rendered.activeAd.skipOffsetHalves # Null
          /\ Max(0, CeilHalves(rendered.activeAd.skipOffsetHalves
                                   - 2 * adTime)) = 0
          /\ Before(skipClicked(Now).log, "skip", "closeLinear")
          /\ skipClicked(Now).dispatched["closeLinear"] > 0
          /\ ~skipClicked(Now).isAdPlayingRef
          /\ ~isAdPlayingRef'
          /\ activeAd' = NoAd]_vars

C25_Witness ==
    /\ log = <<"skip", "closeLinear", "seek", "resume">>
    /\ ~isAdPlayingRef
    /\ activeAd = NoAd
    /\ rendered.activeAd = NoAd
    /\ ~mainPaused

\* C29: when ads become disabled while an ad is playing, the break ends (no
\* ad is active, isAdPlaying is false) and the main player is playing again
\* at the time recorded when the break was triggered.
C29_DisablingEndsBreakAndResumes ==
    [][ToggleAds /\ isAdPlayingRef /\ disableVastAds' =>
          /\ ~isAdPlayingRef'
          /\ activeAd' = NoAd
          /\ ~mainPaused'
          /\ mainTime' = breakTrigger]_vars

\* C30: with startAt > 0, whatever the order of the play and canplay events
\* and of the preroll break, a preroll that finishes after the start-at seek
\* has been applied leaves the main player playing at a position not earlier
\* than startAt.
C30_StartAtSurvivesPreroll ==
    [][/\ startAt > 0
       /\ isAdPlayingRef /\ activeAdRef.slot = "preroll"
       /\ ~isAdPlayingRef'
       /\ hasAppliedStartAtRef
       => mainTime' >= startAt /\ ~mainPaused']_vars

(***************************************************************************)
(* Properties of the ad requests across source changes.                    *)
(***************************************************************************)
\* The step settles the request f, whose promise is no longer pending.
Settles(f) == f \in adFetches /\ f \notin adFetches'

\* The source has changed since the request f was issued.
IssuedForEarlierLifetime(f) == f.lifetime # lifetime

\* C15: the resolution of an ad fetch issued before a change of the active
\* source starts no ad break and neither pauses nor resumes the main player,
\* whatever the sources picked in between, the original one included.
C15_StaleResolutionIgnored ==
    [][\A f \in adFetches :
          Settles(f) /\ IssuedForEarlierLifetime(f) =>
              /\ isAdPlayingRef' = isAdPlayingRef
              /\ activeAd' = activeAd
              /\ mainPaused' = mainPaused
              /\ playEventPending' = playEventPending]_vars

\* The step settles the request f with null: the ad server has served
\* nothing in it.
SettlesWithNull(f) == Settles(f) /\ adsServed' = adsServed

\* The slot of request f is marked as attempted.
SlotConsumed(f) ==
    IF f.slot = "preroll" THEN hasPrerollPlayedRef ELSE hasMidrollPlayedRef

\* C21: when the ad fetch of a slot resolves to null (no ad, a failure or a
\* timeout) on the source it was issued for and with ads enabled, no ad
\* break starts, the main player is resumed, the player is idle (isAdPlaying
\* false, no active ad) and the slot stays consumed.
C21_NullAdResumesMain ==
    [][\A f \in adFetches :
          /\ SettlesWithNull(f)
          /\ ~IssuedForEarlierLifetime(f)
          /\ ~disableVastAdsRef
          => /\ ~isAdPlayingRef'
             /\ activeAd' = NoAd
             /\ ~mainPaused'
             /\ SlotConsumed(f)']_vars

\* C22: when ads have been disabled while an ad fetch was outstanding and
\* are still disabled when it resolves, the resolution starts no ad break
\* (whatever it resolved to) and the main player is resumed.
C22_DisabledMeanwhileNoAd ==
    [][\A f \in adFetches :
          Settles(f) /\ disableVastAdsRef =>
              /\ ~isAdPlayingRef'
              /\ activeAd' = NoAd
              /\ ~mainPaused']_vars

\* C22 witness: the preroll fetch has resolved with an ad after ads were
\* disabled (the ad is held in prerollAdRef, which the change of the prop
\* had emptied), no break runs and the main player plays.
C22_Witness ==
    /\ disableVastAdsRef
    /\ toggles = 1
    /\ adFetches = {}
    /\ adsServed["preroll"] = 1
    /\ prerollAdRef # NoAd
    /\ ~isAdPlayingRef
    /\ activeAd = NoAd
    /\ ~mainPaused

(***************************************************************************)
(* Properties of the error events of the main player.                      *)
(***************************************************************************)
\* No event, promise or render of ErrorNext is left to run: the media is
\* loaded and playing, no play event is queued, no ad request is pending, no
\* ad video is running, the render is up to date and the source has fired
\* the error events of the scenario.
ErrorAtRest ==
    /\ ~(mainElem # NoElement /\ mainDuration = 0)
    /\ ~(mainElem # NoElement /\ mainPaused /\ rendered.activeAd = NoAd)
    /\ ~(mainElem # NoElement /\ playEventPending)
    /\ adFetches = {}
    /\ ~adVideoRunning
    /\ ~Dirty(Now)
    /\ ~(mainHandlersLive(Now) /\ errors < scenario.errors)

\* C28: an error event of the main player is never dropped: once the player
\* has come to rest, with nothing left to run, every source that fired an
\* error event has been left for another source or the fatal error is shown,
\* also when the event arrived while an ad was playing.
C28_MainErrorNeverDropped ==
    ErrorAtRest =>
        \A i \in failed : activeSourceIndex # i \/ error = FatalMessage

(***************************************************************************)
(* Properties of the source aggregation.                                   *)
(***************************************************************************)
Files(sources) == { sources[i].file : i \in 1..Len(sources) }

MarkedDefault(sources) == { i \in 1..Len(sources) : sources[i].isDefault }

\* C26: the list the player adopts has no two entries with the same file and
\* exactly one entry marked default, and the source that is active first is
\* that entry.
C26_AdoptedListHasOneDefault ==
    aggregation.pc = "adopted" =>
        LET sources == aggregation.availableSources
        IN  /\ \A i, j \in 1..Len(sources) :
                   sources[i].file = sources[j].file => i = j
            /\ Cardinality(MarkedDefault(sources)) = 1
            /\ MarkedDefault(sources) = {aggregation.activeSourceIndex + 1}

\* The source each provider yields by itself, whatever the others did.
SourcesOfSuccessful ==
    LET settled == aggregation.settled
        prime == primeSourceOf(settled.primevids.value)
        asia == buildAsiacloudHindiFallback(settled.asiacloud.value)
        opuk == IF settled.opuk.value # NullElement
                THEN buildOpukFallback(settled.opuk.value) ELSE NoSource
        built == <<aggregation.vixsrcSource, opuk, prime, asia>>
    IN  { built[i] : i \in { j \in 1..4 : /\ built[j] # NoSource
                                          /\ built[j] # Threw } }

GetHasResponded == aggregation.pc \in {"responded", "opuk", "adopted", "failed"}

\* C27: whichever providers fail (exception, non-OK status, unusable payload),
\* the response lists exactly the sources of the providers that succeeded,
\* and it is the 502 error only when no provider yielded a source.
C27_ProviderFailuresAreIsolated ==
    GetHasResponded =>
        /\ aggregation.response.status = 502 <=> SourcesOfSuccessful = {}
        /\ SourcesOfSuccessful # {} =>
               /\ aggregation.response.status = 200
               /\ Files(aggregation.response.sources) =
                      { source.file : source \in SourcesOfSuccessful }

(***************************************************************************)
(* Properties of the VAST resolvers.                                       *)
(***************************************************************************)
\* The document at url is an inline ad: it carries a media URL.
IsInline(url) ==
    /\ url \in DOMAIN vastWeb
    /\ vastWeb[url].ok
    /\ ~vastWeb[url].blank
    /\ pickBestMediaUrl(vastWeb[url], url) # EmptyString

\* The URLs a wrapper at url refers to.
LinksOf(url) ==
    IF url \in DOMAIN vastWeb /\ vastWeb[url].ok /\ ~vastWeb[url].blank
       /\ ~IsInline(url)
    THEN Range(resolvedTagValues(vastWeb[url], "VASTAdTagURI", url))
    ELSE {}

\* The URLs at the given depth of the wrapper graph below the root.
RECURSIVE Level(_)
Level(depth) ==
    IF depth = 0 THEN {DocUrl(0)}
    ELSE UNION { LinksOf(url) : url \in Level(depth - 1) }

InlineWithin(depth) ==
    \E d \in 0..depth : \E url \in Level(d) : IsInline(url)

\* C6: both resolvers end, whatever the wrapper graph (a wrapper may refer
\* to itself); no document is requested at a depth greater than 3; and when
\* the graph has no inline ad at depth 3 or less (its inline ads are at depth
\* 4 or deeper, or it has none), the resolution ends with null.
C6_ResolutionEndsWithinDepth ==
    /\ <>VastDone
    /\ [](\A depth \in vastFetched : depth <= 3)
    /\ [](VastDone /\ ~InlineWithin(3) => vastReturn = NullAd)

\* C6 witness: a graph whose only inline ad is at depth 4 has been walked
\* down to depth 3 and the resolution has ended with null.
C6_Witness ==
    /\ VastDone
    /\ vastReturn = NullAd
    /\ 3 \in vastFetched
    /\ ~InlineWithin(3)
    /\ InlineWithin(4)

RECURSIVE Concatenation(_)
Concatenation(lists) ==
    IF lists = <<>> THEN <<>>
    ELSE Head(lists) \o Concatenation(Tail(lists))

\* seq without the elements that occur earlier in it.
RECURSIVE FirstOccurrences(_)
FirstOccurrences(seq) ==
    IF seq = <<>> THEN <<>>
    ELSE LET front == SubSeq(seq, 1, Len(seq) - 1)
             last == seq[Len(seq)]
         IN  IF last \in Range(front) THEN FirstOccurrences(front)
             ELSE Append(FirstOccurrences(front), last)

\* The trackers of one tag that the documents on the successful path carry,
\* W0 first and the inline ad last.
PathTrackers(tagName) ==
    Concatenation([i \in 1..Len(vastPath) |->
                      resolvedTagValues(vastWeb[vastPath[i]], tagName,
                                        vastPath[i])])

\* The same for the <Tracking> elements of one event.
PathEventTrackers(key) ==
    Concatenation([i \in 1..Len(vastPath) |->
        LET entries == trackingEntries(vastWeb[vastPath[i]], vastPath[i])
            has(e) == e.key = key
            chosen == SelectSeq(entries, has)
        IN  [k \in 1..Len(chosen) |-> chosen[k].url]])

ExactlyOnceEach(list, trackers) ==
    /\ Range(list) = Range(trackers)
    /\ \A i, j \in 1..Len(list) : list[i] = list[j] => i = j
    /\ list = FirstOccurrences(trackers)

\* C7: the ad resolveVastDirect returns for a chain W0 -> ... -> Wk -> I
\* carries, in its impression, error and click-tracking lists and in the
\* list of every tracking event, the trackers of W0, ..., Wk, I in that
\* order, each exactly once, at the place of its first occurrence.
C7_MergedTrackersDeduplicated ==
    VastDone /\ vastSide = "client" /\ vastReturn.kind = "ad" =>
        /\ ExactlyOnceEach(vastReturn.impressionUrls, PathTrackers("Impression"))
        /\ ExactlyOnceEach(vastReturn.errorUrls, PathTrackers("Error"))
        /\ ExactlyOnceEach(vastReturn.clickTrackingUrls,
                           PathTrackers("ClickTracking"))
        /\ \A key \in EventKeys \cup DOMAIN vastReturn.tracking :
               ExactlyOnceEach(urlsOf(vastReturn.tracking, key),
                               PathEventTrackers(key))

\* C7 witness: an ad resolved through two wrappers or more, whose documents
\* repeat an impression tracker and a start tracker.
C7_Witness ==
    /\ VastDone
    /\ vastSide = "client"
    /\ vastReturn.kind = "ad"
    /\ Len(vastPath) >= 3
    /\ Len(PathTrackers("Impression")) > Len(vastReturn.impressionUrls)
    /\ Len(PathEventTrackers("start")) > Len(urlsOf(vastReturn.tracking, "start"))
    /\ Len(vastReturn.impressionUrls) >= 2

\* resolveVastDirect was not called or has returned null.
DirectYieldedNothing == ~adRequest.tagConfigured \/ vastReturn = NullAd

\* The endpoint reports an ad: enabled, with a media URL.
EndpointReportsAd ==
    /\ adRequest.endpoint.status = "200"
    /\ adRequest.endpoint.enabled
    /\ adRequest.endpoint.mediaUrl = PaddedMedia

\* C23: whenever the direct ad tag is not configured or its resolution has
\* returned null (also when the deadline expired during it), fetchVastAd
\* returns the ad the endpoint reports when that is enabled with a media
\* URL.  (A deadline that expires while the endpoint is queried is left
\* aside.)
C23_FallsBackToEndpoint ==
    /\ adRequest.pc = "done"
    /\ DirectYieldedNothing
    /\ EndpointReportsAd
    /\ adRequest.abortedAt # "endpoint"
    => /\ adRequest.result # NullAd
       /\ adRequest.result.mediaUrl = Url(AdHost, Path("media", 0))

(***************************************************************************)
(* Properties of the proxy token service.                                  *)
(***************************************************************************)
\* C8: with a secret configured, a token minted for a non-empty target and
\* an integer expiry decodes, while that expiry is strictly greater than the
\* current time, to exactly that target and that expiry; with no secret
\* configured, minting returns null and so does every decode.
C8_TokenRoundTrip ==
    /\ ~isPlayerProxyTokenEnabled(proxySecretEnv) =>
           /\ minted.token = NoToken
           /\ lastDecode.result = NoPayload
    /\ isPlayerProxyTokenEnabled(proxySecretEnv) /\ minted.made =>
           /\ minted.token # NoToken
           /\ /\ minted.target # EmptyValue
              /\ minted.expiresAt # Null
              /\ minted.expiresAt % 2 = 0
              /\ minted.expiresAt > clock
              /\ lastDecode.made
              /\ lastDecode.token = minted.token
              => lastDecode.result = [target |-> minted.target,
                                      exp |-> minted.expiresAt \div 2]

\* C8 witness: a minted token has been decoded to its target and expiry
\* some time after it was made.
C8_Witness ==
    /\ isPlayerProxyTokenEnabled(proxySecretEnv)
    /\ minted.made
    /\ minted.expiresAt # Null
    /\ minted.expiresAt % 2 = 0
    /\ clock > 0
    /\ lastDecode.made
    /\ lastDecode.token = minted.token
    /\ lastDecode.result = [target |-> minted.target,
                            exp |-> minted.expiresAt \div 2]

\* The minted token, made with a secret for a non-empty target, is decoded
\* in this step.
DecodesMinted ==
    /\ DecodeToken
    /\ minted.made
    /\ minted.token # NoToken
    /\ minted.target # EmptyValue
    /\ lastDecode'.token = minted.token

\* C9: a decode of a token (minted with a secret, for a non-empty target)
\* accepts it exactly when the current time is less than the expiry embedded
\* in it, however many times it has been accepted before; and once it has
\* been rejected at or after its expiry it is never accepted again.
C9_ValidUntilExpiry ==
    [][DecodesMinted =>
          /\ (lastDecode'.result # NoPayload)
                 <=> (clock < 2 * EmbeddedExpiry(minted.token))
          /\ expiredSeen => lastDecode'.result = NoPayload]_vars

\* C9 witness: a token accepted several times has then been rejected at
\* its expiry, and rejected again later.
C9_Witness ==
    /\ minted.made
    /\ minted.token # NoToken
    /\ decodes >= 2
    /\ expiredSeen
    /\ clock > 2 * EmbeddedExpiry(minted.token)
    /\ lastDecode.made
    /\ lastDecode.token = minted.token
    /\ lastDecode.result = NoPayload

(***************************************************************************)
(* Properties of the parser's functions.                                   *)
(***************************************************************************)
\* The candidates of the document handed to the parser.
Candidates == extractMediaCandidates(vastXml, DocUrl(0))

\* Candidate i has the highest score, and no candidate before it has it.
FirstOfTheBest(i) ==
    /\ \A j \in 1..Len(Candidates) :
           rankMediaCandidate(Candidates[j]) <= rankMediaCandidate(Candidates[i])
    /\ \A j \in 1..(i - 1) :
           rankMediaCandidate(Candidates[j]) < rankMediaCandidate(Candidates[i])

\* The two candidates are one of type video/mp4 and bit rate 3000 and one
\* of type application/x-mpegurl and bit rate 1000, with no dimensions; the
\* value is the index of the former, 0 when they are not.
Mp4AgainstHls ==
    LET is(i, type, bitrate) ==
            /\ Candidates[i].type = type
            /\ Candidates[i].bitrate = bitrate
            /\ Candidates[i].width = Undefined
            /\ Candidates[i].height = Undefined
    IN  IF Len(Candidates) # 2 THEN 0
        ELSE IF is(1, "video/mp4", 3000) /\ is(2, "application/x-mpegurl", 1000)
        THEN 1
        ELSE IF is(2, "video/mp4", 3000) /\ is(1, "application/x-mpegurl", 1000)
        THEN 2
        ELSE 0

\* pickBestMediaUrl returns the URL of the first candidate of the highest
\* score.
PicksFirstOfTheBest ==
    vastParsed.fn = "pickBestMediaUrl" /\ Len(Candidates) > 0 =>
        \E i \in 1..Len(Candidates) :
            /\ FirstOfTheBest(i)
            /\ vastParsed.value = Candidates[i].url

\* C13: pickBestMediaUrl returns the URL of the first candidate, in document
\* order, of the highest rankMediaCandidate score; of a video/mp4 candidate
\* of bit rate 3000 and an application/x-mpegurl candidate of bit rate 1000
\* it returns the former.
C13_BestCandidateAndMp4OverHls ==
    /\ PicksFirstOfTheBest
    /\ vastParsed.fn = "pickBestMediaUrl" /\ Mp4AgainstHls # 0 =>
           vastParsed.value = Candidates[Mp4AgainstHls].url

\* The <Linear> elements of the document, and the duration the parser was
\* given.
Linears == vastXml.Linear

KnownDuration == vastParsed.durationSeconds

\* The skipoffset of the i-th <Linear> parses to a number of seconds.
Parses(i) ==
    /\ Linears[i].skipoffset # NoText
    /\ parseSkipOffsetSeconds(Linears[i].skipoffset, KnownDuration) # Undefined

\* The skipoffset of the i-th <Linear> is p% with 0 <= p <= 100.
IsPercentage(i) ==
    /\ Linears[i].skipoffset \notin {NoText, BlankText}
    /\ Linears[i].skipoffset.form = "percent"
    /\ Linears[i].skipoffset.num.text = "digits"
    /\ Linears[i].skipoffset.num.n \in 0..100

\* C14: extractSkipOffsetSeconds returns the value of the first <Linear>
\* whose skipoffset parses, and that value is not negative; a percentage
\* p% with 0 <= p <= 100 parses exactly when the duration is known and
\* positive, and then to duration * p / 100 (25% of 00:02:00 is 30 s); when
\* no skipoffset parses, the result is undefined.
C14_FirstParsedSkipOffset ==
    vastParsed.fn = "extractSkipOffsetSeconds" =>
        LET parsing == { i \in 1..Len(Linears) : Parses(i) }
            first == CHOOSE i \in parsing : \A j \in parsing : i <= j
        IN  /\ parsing = {} => vastParsed.value = Undefined
            /\ parsing # {} =>
                   /\ vastParsed.value =
                          parseSkipOffsetSeconds(Linears[first].skipoffset,
                                                 KnownDuration)
                   /\ vastParsed.value >= 0
            /\ \A i \in 1..Len(Linears) :
                   IsPercentage(i) =>
                       /\ Parses(i) <=> KnownDuration # Undefined /\ KnownDuration > 0
                       /\ Parses(i) =>
                              100 * parseSkipOffsetSeconds(
                                        Linears[i].skipoffset, KnownDuration)
                                  = KnownDuration * Linears[i].skipoffset.num.n
            /\ (parsing # {} /\ IsPercentage(first)
                   /\ Linears[first].skipoffset.num.n = 25
                   /\ KnownDuration = 120 * 100000) =>
                   vastParsed.value = 30 * 100000

\* A percentage without a known duration was passed over, and the 25% of a
\* later <Linear> was taken of a duration of two minutes.
C14_Witness ==
    /\ vastParsed.fn = "extractSkipOffsetSeconds"
    /\ Len(Linears) = 3
    /\ Linears[1].skipoffset = PercentText(Digits(150), FALSE)
    /\ Linears[2].skipoffset = PercentText(Digits(25), TRUE)
    /\ Linears[3].skipoffset = ClockText(0, 0, 5, 1, 5, FALSE)
    /\ vastXml.Duration = <<BlankText, ClockText(0, 2, 0, 0, 0, FALSE)>>
    /\ vastParsed.value = 30 * 100000

(***************************************************************************)
(* Properties of the secure proxy along a chain of references.             *)
(***************************************************************************)
\* The expiry, in seconds, of the token the chain began with.
RootExpiry == EmbeddedExpiry(minted.token)

\* A request has just been served up to its fetch or its error.
RequestServed == proxyHops' # proxyHops

\* C11: every token minted while a manifest is rewritten carries the expiry
\* of the token the manifest was requested with, which is the expiry of the
\* token the chain began with; and no request of the chain made at or after
\* that expiry leads to an upstream fetch.
C11_ChainExpiresWithRootToken ==
    [][/\ proxyResponse'.kind = "manifest" =>
              \A url \in ProxyUrlsOf(proxyResponse'.body) :
                  /\ EmbeddedExpiry(url.token) = EmbeddedExpiry(proxyRequest')
                  /\ EmbeddedExpiry(url.token) = RootExpiry
       /\ RequestServed /\ proxyPending' # NoPayload =>
              /\ clock < 2 * RootExpiry
              /\ proxyPending'.exp = RootExpiry]_vars

\* The third request of a chain, made with a token of the second manifest
\* after the expiry of the root token, is refused.
C11_Witness ==
    /\ proxyHops = 3
    /\ proxyRequest # NoToken
    /\ proxyRequest # minted.token
    /\ getKey(proxySecretEnv) # NoKey
    /\ deciphers(getKey(proxySecretEnv), fromBase64Url(proxyRequest[2]),
                 fromBase64Url(proxyRequest[3]), fromBase64Url(proxyRequest[4]))
    /\ EmbeddedExpiry(proxyRequest) = RootExpiry
    /\ clock >= 2 * RootExpiry
    /\ proxyResponse.status = 403
    /\ proxyPending = NoPayload

\* An absolute URL of protocol http or https.
IsHttpUrl(value) == value.kind = "abs"

\* The token is one the service made and has not expired.
Decodes(token) ==
    /\ token # NoToken
    /\ Len(token) = 4
    /\ token[1] = "v1"
    /\ fromBase64Url(token[4]).key = [sha256 |-> "k1"]
    /\ fromBase64Url(token[3]).tagged[1] = [sha256 |-> "k1"]
    /\ fromBase64Url(token[3]).tagged[3] = fromBase64Url(token[4]).plaintext
    /\ clock < 2 * EmbeddedExpiry(token)

\* C12: a request leads to an upstream fetch only if the service has a
\* secret, the token decodes and its target is an absolute http(s) URL;
\* otherwise it is answered 503 (no secret), 400 (no token), 403 (the token
\* does not decode) or 400 (the target is no http(s) URL), without a fetch.
C12_FetchOnlyForValidToken ==
    [][RequestServed =>
          LET token == proxyRequest'
              enabled == proxySecretEnv \notin {"", " "}
              target == jsonParse(fromBase64Url(token[4]).plaintext).target
              fetches == proxyPending' # NoPayload
          IN  IF ~enabled THEN ~fetches /\ proxyResponse'.status = 503
              ELSE IF token = NoToken
              THEN ~fetches /\ proxyResponse'.status = 400
              ELSE IF ~Decodes(token)
              THEN ~fetches /\ proxyResponse'.status = 403
              ELSE IF ~IsHttpUrl(target)
              THEN ~fetches /\ proxyResponse'.status = 400
              ELSE fetches /\ proxyResponse' = NoResponse
                           /\ proxyPending'.target = target]_vars

\* A token of a served manifest whose target is an ftp URL is answered 400.
C12_Witness ==
    /\ proxyHops = 2
    /\ Decodes(proxyRequest)
    /\ jsonParse(fromBase64Url(proxyRequest[4]).plaintext).target.kind = "ftp"
    /\ proxyResponse.status = 400
    /\ proxyPending = NoPayload

(***************************************************************************)
(* Properties of the playlist rewrite.                                     *)
(***************************************************************************)
LineBreaksOf(body) == { i \in 1..Len(body) : body[i] = LineBreak }

LineCount(body) == Cardinality(LineBreaksOf(body)) + 1

\* The k-th line of body: what stands between the (k-1)-th and the k-th
\* line break.
LineOf(body, k) ==
    LET breaks == LineBreaksOf(body)
        nth(n) == CHOOSE i \in breaks :
                      Cardinality({ j \in breaks : j <= i }) = n
        from == IF k = 1 THEN 1 ELSE nth(k - 1) + 1
        to == IF k = LineCount(body) THEN Len(body) ELSE nth(k) - 1
    IN  SubSeq(body, from, to)

\* RFC 3986 resolution of a reference against the URL of the manifest.
ResolvedAgainst(reference, manifestUrl) ==
    IF reference.kind \in {"abs", "bad"} THEN reference
    ELSE [manifestUrl EXCEPT
            !.dir = IF reference.kind = "root" THEN reference.dir ELSE @,
            !.file = IF reference.kind = "text" THEN @ ELSE reference.file,
            !.frag = IF reference.kind = "text" THEN reference.file ELSE @]

\* url is a secure-proxy URL whose token decodes, as long as it has not
\* expired, to the reference resolved against the manifest's URL.
ProxiesReference(url, reference, manifestUrl, exp) ==
    /\ url.kind = "proxy"
    /\ url.host = RequestOrigin
    /\ url.file = "secure-proxy"
    /\ \A now \in 0..MaxClock :
           now < 2 * exp =>
               decodePlayerProxyToken(proxySecretEnv, now, url.token)
                   = [target |-> ResolvedAgainst(reference, manifestUrl),
                      exp |-> exp]

IsBlank(line) == \A i \in 1..Len(line) : line[i] = WhiteSpace

NonBlankPieces(line) ==
    LET nonBlank(piece) == piece # WhiteSpace
    IN  SelectSeq(line, nonBlank)

\* C10: the manifest the proxy serves has as many lines as the upstream
\* manifest; a line starting with '#' keeps everything but the values of
\* its URI="..." attributes, each replaced by a secure-proxy URL for the
\* value resolved against the manifest's URL; a blank line is unchanged;
\* every other line is replaced by a secure-proxy URL for its reference
\* resolved against the manifest's URL.
C10_RewriteKeepsLinesAndProxiesReferences ==
    proxyResponse.kind = "manifest" =>
        LET input == proxyResponse.manifest
            output == proxyResponse.body
            exp == proxyResponse.exp
            url == proxyResponse.url
        IN  /\ LineCount(output) = LineCount(input)
            /\ \A k \in 1..LineCount(input) :
                   LET before == LineOf(input, k)
                       after == LineOf(output, k)
                   IN  IF before # <<>> /\ before[1].t = "tag"
                       THEN /\ Len(after) = Len(before)
                            /\ \A i \in 1..Len(before) :
                                   IF before[i].t = "uri"
                                      /\ before[i].value # EmptyValue
                                   THEN /\ after[i].t = "uri"
                                        /\ ProxiesReference(after[i].value,
                                               before[i].value, url, exp)
                                   ELSE after[i] = before[i]
                       ELSE IF IsBlank(before) THEN after = before
                       ELSE /\ Len(after) = 1
                            /\ after[1].t = "ref"
                            /\ ProxiesReference(after[1].value,
                                   NonBlankPieces(before)[1].value, url, exp)

\* C10 witness: a manifest of three lines has been rewritten, with a tag
\* line that carries URI attributes, a reference line and a blank line,
\* some time after the request came in.
C10_Witness ==
    /\ proxyResponse.kind = "manifest"
    /\ clock > 0
    /\ LineCount(proxyResponse.manifest) = 3
    /\ \E k \in 1..3 :
           \E i \in 1..Len(LineOf(proxyResponse.manifest, k)) :
               /\ LineOf(proxyResponse.manifest, k)[1].t = "tag"
               /\ LineOf(proxyResponse.manifest, k)[i].t = "uri"
               /\ LineOf(proxyResponse.body, k)[i].value.kind = "proxy"
    /\ \E k \in 1..3 :
           /\ LineOf(proxyResponse.manifest, k) # <<>>
           /\ LineOf(proxyResponse.manifest, k)[1].t = "ref"
           /\ LineOf(proxyResponse.body, k)[1].value.kind = "proxy"
    /\ \E k \in 1..3 : LineOf(proxyResponse.manifest, k) = <<WhiteSpace>>

RenderSettled == ~Dirty(Render(Cur))

====
